---- MODULE Spec2Model ----
(***************************************************************************)
(* rv-logbook: trips contain stops, stops carry tags, and the data set can *)
(* be exported flat.  The module models the relational store (trips,       *)
(* stops, tags, stop_tags), the repository statements issued against it,   *)
(* the service operations built from those statements, and the slug        *)
(* normalization that gives tags their identity.                           *)
(*                                                                         *)
(* Strings are sequences of one-character strings over Alphabet.           *)
(***************************************************************************)
EXTENDS Integers, Sequences, FiniteSets, Bags, TLC

\* ------------------------------------------------------------------------
\* Bounds
\* ------------------------------------------------------------------------

\* Longest name handed to toSlug in SlugSpec.
MaxNameLen == 4
\* Number of trip, stop and tag identifiers the store hands out.
MaxTrips == 2
MaxStops == 2
MaxTags == 2
\* Dates and timestamps are 1..MaxTime.
MaxTime == 2
\* Multi-statement service calls (AddTag, Stop.Create) in flight at once.
MaxInFlight == 2
MaxSkewWrites == 1
\* Width in bits of the machine integer (int) that pagination computes in.
IntBits == 8

\* ------------------------------------------------------------------------
\* Characters and strings
\* ------------------------------------------------------------------------

LowerLetters == {"a"}
UpperLetters == {"A"}
Digits == {"1"}
\* "E'" / "e'" stand for a non-ASCII letter pair (U+00C9 / U+00E9): a letter
\* with a lowercase form that the slug pattern does not accept.
NonAsciiLetters == {"E'", "e'"}
Spaces == {" "}
Punctuation == {"-", "!"}

\* The further letters of the tag name "Rocky Mountains".
RockyLower == {"r", "o", "c", "k", "y", "m", "u", "n", "t", "i", "s"}
RockyUpper == {"R", "M"}

Alphabet ==
  LowerLetters \cup UpperLetters \cup Digits \cup NonAsciiLetters
    \cup Spaces \cup Punctuation

\* All strings over the set chars of length at most n.
StringsUpTo(chars, n) == UNION {[1..k -> chars] : k \in 0..n}

\* unicode.ToLower on one rune.
\* A mutation of ToLowerRune: no lowercasing at all.
ToLowerRuneIdentity(c) == c

ToLowerRune(c) ==
  CASE c = "A" -> "a"
    [] c = "E'" -> "e'"
    [] c = "R" -> "r"
    [] c = "M" -> "m"
    [] OTHER -> c

\* strings.ToLower: maps every rune through unicode.ToLower.
ToLower(s) == [i \in 1..Len(s) |-> ToLowerRune(s[i])]

\* The character class [^a-z0-9] of the pattern nonAlphanumeric.
IsNonAlphanumeric(c) == c \notin (LowerLetters \cup RockyLower \cup Digits)

\* A mutation of MatchLen: the pattern without its `+`, one character a match.
MatchLenSingle(s) == IF s = <<>> \/ ~IsNonAlphanumeric(Head(s)) THEN 0 ELSE 1

\* Length of the longest prefix of s made of characters of the class: the
\* greedy match of `[^a-z0-9]+` that starts at the head of s.
RECURSIVE MatchLen(_)
MatchLen(s) ==
  IF s = <<>> \/ ~IsNonAlphanumeric(Head(s)) THEN 0
  ELSE 1 + MatchLen(Tail(s))

\* nonAlphanumeric.ReplaceAllString(s, "-"): scanning left to right, every
\* match of the pattern is replaced by one hyphen.
RECURSIVE ReplaceAllString(_)
ReplaceAllString(s) ==
  IF s = <<>> THEN <<>>
  ELSE IF MatchLen(s) > 0
    THEN <<"-">> \o ReplaceAllString(SubSeq(s, MatchLen(s) + 1, Len(s)))
    ELSE <<Head(s)>> \o ReplaceAllString(Tail(s))

\* strings.TrimLeft / TrimRight / Trim with a cutset.
RECURSIVE TrimLeft(_, _)
TrimLeft(s, cutset) ==
  IF s # <<>> /\ Head(s) \in cutset THEN TrimLeft(Tail(s), cutset) ELSE s

RECURSIVE TrimRight(_, _)
TrimRight(s, cutset) ==
  IF s # <<>> /\ s[Len(s)] \in cutset
    THEN TrimRight(SubSeq(s, 1, Len(s) - 1), cutset)
    ELSE s

Trim(s, cutset) == TrimRight(TrimLeft(s, cutset), cutset)

\* strings.TrimSpace.
TrimSpace(s) == Trim(s, Spaces)

\* service.toSlug.
toSlug(name) ==
  LET lower == ToLower(name)
      slug == ReplaceAllString(lower)
  IN Trim(slug, {"-"})

\* ------------------------------------------------------------------------
\* Errors: an error is the chain of fmt.Errorf("...: %w") layers around a
\* root error, outermost first; the empty chain is nil.
\* ------------------------------------------------------------------------

NoError == <<>>
\* domain.ErrNotFound, domain.ErrValidation.
ErrNotFound == <<"not found">>
ErrValidation == <<"validation error">>
\* Errors handed up by the database driver: a failed statement (lost
\* connection, cancelled context) and a foreign-key violation (SQLSTATE 23503).
ErrStore == <<"store failure">>
ErrForeignKey == <<"foreign key violation">>

\* A mutation of Wrap: the error is formatted with %v, its chain is lost.
WrapOpaque(prefix, err) == <<prefix>>

\* fmt.Errorf(prefix + ": %w", err)
Wrap(prefix, err) == <<prefix>> \o err
\* fmt.Errorf("%w: " + msg, sentinel)
WithMessage(sentinel, msg) == <<msg>> \o sentinel
\* errors.Is(err, target) for a sentinel target: unwrap down to the root.
ErrorsIs(err, target) == err # <<>> /\ err[Len(err)] = target[1]
\* errors.Is(err, inner) for an error value inner: inner is in the chain of err.
UnwrapsTo(err, inner) ==
  Len(inner) <= Len(err) /\ SubSeq(err, Len(err) - Len(inner) + 1, Len(err)) = inner

\* ------------------------------------------------------------------------
\* Values
\* ------------------------------------------------------------------------

\* A nil pointer / SQL NULL is <<>>, a present value v is <<v>>.
Null == <<>>
Some(v) == <<v>>
Opt(S) == {Null} \cup {Some(v) : v \in S}

\* A Go slice: nil, or a (possibly empty) sequence of items.
NilSlice == [null |-> TRUE, items |-> <<>>]
Slice(items) == [null |-> FALSE, items |-> items]

Times == 1..MaxTime
TripIDs == 1..MaxTrips
StopIDs == 1..MaxStops
TagIDs == 1..MaxTags

\* repo.nullableString: the empty string is stored as NULL.
nullableString(s) == IF s = <<>> THEN Null ELSE Some(s)
\* scanStop on a nullable text column: NULL reads back as "".
scanNullable(col) == IF col = Null THEN <<>> ELSE col[1]

\* All orderings of the row set S in which no row comes before a row that
\* is less than it (less is the set of pairs <<a, b>> with a before b); rows that compare equal come in any order.  This is what
\* a SELECT ... ORDER BY may return.
Sorted(S, less) ==
  {q \in [1..Cardinality(S) -> S] :
     /\ \A i, j \in 1..Cardinality(S) : i # j => q[i] # q[j]
     /\ \A i, j \in 1..Cardinality(S) : i < j => <<q[j], q[i]>> \notin less}

\* Order of strings in the database's ORDER BY, on the characters that
\* occur in slugs: character by character, "-" < digits < letters.
Rank(c) ==
  CASE c = "-" -> 1
    [] c = "1" -> 2
    [] c = "a" -> 3
    [] OTHER -> 4

RECURSIVE StrLess(_, _)
StrLess(s, t) ==
  IF t = <<>> THEN FALSE
  ELSE IF s = <<>> THEN TRUE
  ELSE IF Head(s) # Head(t) THEN Rank(Head(s)) < Rank(Head(t))
  ELSE StrLess(Tail(s), Tail(t))

\* ------------------------------------------------------------------------
\* State
\* ------------------------------------------------------------------------

VARIABLES
  trips,     \* table trips: rows [id, name, startDate, endDate]
  stops,     \* table stops: rows [id, tripID, name, location, arrivedAt,
             \*                    departedAt, notes]
  tags,      \* table tags: rows [id, name, slug]
  stopTags,  \* table stop_tags: rows [stopID, tagID]
  nextID,    \* identifiers handed out so far, per table
  pending,   \* service calls between two of their statements
  exp,       \* the Export call in progress, between two of its statements
  ret,       \* the service call that returned last: [op, arg, err, val]
  slugTest   \* SlugSpec: a name, a case variant of it, and their slugs

vars == <<trips, stops, tags, stopTags, nextID, pending, exp, ret, slugTest>>
db == <<trips, stops, tags, stopTags, nextID>>
\* The rows of the four tables.
Store == [trips |-> trips, stops |-> stops, tags |-> tags, stopTags |-> stopTags]

NoCall == [op |-> "none", arg |-> <<>>, err |-> NoError, val |-> <<>>]
Return(op, arg, err, val) == [op |-> op, arg |-> arg, err |-> err, val |-> val]

\* ------------------------------------------------------------------------
\* Inputs of the service calls
\* ------------------------------------------------------------------------

\* Trip and stop names: empty, whitespace only, and a valid one.
NameInputs == {<<>>, <<" ">>, <<"a">>}
\* Location and notes of a stop: both absent, or both given (and different).
StopTexts ==
  {[location |-> <<>>, notes |-> <<>>], [location |-> <<"a">>, notes |-> <<"1">>]}
\* Tag names: two spellings of one slug, a second slug, a name that is
\* trimmed and collapsed, and names that are empty or normalize to empty.
TagNameInputs ==
  {<<"a">>, <<"A">>, <<" ", "A", "!">>, <<"1">>, <<>>, <<" ">>, <<"!">>}

\* domain.Trip (identifier aside) as handed to TripService.Create.
TripInputs == [name : NameInputs, startDate : Times, endDate : Opt(Times)]

\* domain.Stop (identifier aside) as handed to StopService.Create.
StopInputs ==
  {[tripID |-> t, name |-> n, location |-> x.location, arrivedAt |-> a,
    departedAt |-> d, notes |-> x.notes] :
     t \in TripIDs, n \in NameInputs, x \in StopTexts, a \in Times,
     d \in Opt(Times)}

\* The zero values returned next to an error.
ZeroTrip == [id |-> 0, name |-> <<>>, startDate |-> 0, endDate |-> Null]
ZeroStop ==
  [id |-> 0, tripID |-> 0, name |-> <<>>, location |-> <<>>, arrivedAt |-> 0,
   departedAt |-> Null, notes |-> <<>>]
ZeroTag == [id |-> 0, name |-> <<>>, slug |-> <<>>]

\* ------------------------------------------------------------------------
\* Repository statements.  Each is one SQL statement and is atomic; fault
\* says that the driver failed the statement, which then changes nothing.
\* A statement operator yields the error and value the repository method
\* returns and the tables as the statement leaves them.
\* ------------------------------------------------------------------------

\* scanTrip: a trips row as a domain.Trip.
scanTrip(row) == row

\* scanStop: a stops row as a domain.Stop (NULL text columns read as "").
scanStop(row) ==
  [id |-> row.id, tripID |-> row.tripID, name |-> row.name,
   location |-> scanNullable(row.location), arrivedAt |-> row.arrivedAt,
   departedAt |-> row.departedAt, notes |-> scanNullable(row.notes)]

\* The stops row written for a domain.Stop.
StopRow(id, stop) ==
  [id |-> id, tripID |-> stop.tripID, name |-> stop.name,
   location |-> nullableString(stop.location), arrivedAt |-> stop.arrivedAt,
   departedAt |-> stop.departedAt, notes |-> nullableString(stop.notes)]

\* pgTripRepo.Create: INSERT INTO trips ... RETURNING.
TripRepoCreate(trip, fault) ==
  IF fault
    THEN [err |-> Wrap("repo.TripRepo.Create", ErrStore), val |-> ZeroTrip,
          trips |-> trips, nextID |-> nextID]
    ELSE LET row == [id |-> nextID.trip + 1, name |-> trip.name,
                     startDate |-> trip.startDate, endDate |-> trip.endDate]
         IN [err |-> NoError, val |-> scanTrip(row), trips |-> trips \cup {row},
             nextID |-> [nextID EXCEPT !.trip = @ + 1]]

\* pgTripRepo.GetByID: SELECT ... FROM trips WHERE id = @id.
TripRepoGetByID(id, fault) ==
  IF fault
    THEN [err |-> Wrap("repo.TripRepo.GetByID", ErrStore), val |-> ZeroTrip]
    ELSE IF \E t \in trips : t.id = id
      THEN [err |-> NoError, val |-> scanTrip(CHOOSE t \in trips : t.id = id)]
      ELSE [err |-> Wrap("repo.TripRepo.GetByID", ErrNotFound), val |-> ZeroTrip]

\* pgTripRepo.Update: UPDATE trips SET ... WHERE id = @id RETURNING.
TripRepoUpdate(id, trip, fault) ==
  IF fault
    THEN [err |-> Wrap("repo.TripRepo.Update", ErrStore), val |-> ZeroTrip,
          trips |-> trips]
    ELSE IF \E t \in trips : t.id = id
      THEN LET old == CHOOSE t \in trips : t.id = id
               row == [id |-> id, name |-> trip.name,
                       startDate |-> trip.startDate, endDate |-> trip.endDate]
           IN [err |-> NoError, val |-> scanTrip(row),
               trips |-> (trips \ {old}) \cup {row}]
      ELSE [err |-> Wrap("repo.TripRepo.Update", ErrNotFound), val |-> ZeroTrip,
            trips |-> trips]

\* A mutation of TripRepoDelete: stops.trip_id has no ON DELETE CASCADE, and
\* the stops of the trip stay.
TripRepoDeleteNoCascade(id, fault) ==
  IF fault
    THEN [err |-> Wrap("repo.TripRepo.Delete", ErrStore), trips |-> trips,
          stops |-> stops, stopTags |-> stopTags]
    ELSE IF \E t \in trips : t.id = id
      THEN [err |-> NoError, trips |-> {t \in trips : t.id # id},
            stops |-> stops, stopTags |-> stopTags]
      ELSE [err |-> Wrap("repo.TripRepo.Delete", ErrNotFound), trips |-> trips,
            stops |-> stops, stopTags |-> stopTags]

\* pgTripRepo.Delete: DELETE FROM trips WHERE id = @id.  The foreign keys
\* stops.trip_id and stop_tags.stop_id are ON DELETE CASCADE.
TripRepoDelete(id, fault) ==
  IF fault
    THEN [err |-> Wrap("repo.TripRepo.Delete", ErrStore), trips |-> trips,
          stops |-> stops, stopTags |-> stopTags]
    ELSE IF ~\E t \in trips : t.id = id
      THEN [err |-> Wrap("repo.TripRepo.Delete", ErrNotFound), trips |-> trips,
            stops |-> stops, stopTags |-> stopTags]
      ELSE LET gone == {s \in stops : s.tripID = id}
           IN [err |-> NoError,
               trips |-> {t \in trips : t.id # id},
               stops |-> stops \ gone,
               stopTags |-> {l \in stopTags : \A s \in gone : l.stopID # s.id}]

\* A mutation of StopMatches: the stop is looked up by its id alone.
StopMatchesIDOnly(row, tripID, stopID) == row.id = stopID

\* The WHERE clause of the single-stop statements: id = @id AND trip_id = @trip_id.
StopMatches(row, tripID, stopID) == row.id = stopID /\ row.tripID = tripID

\* A mutation of StopRepoCreate: stops.trip_id is not a foreign key.
StopRepoCreateNoForeignKey(stop, fault) ==
  IF fault
    THEN [err |-> Wrap("repo.StopRepo.Create", ErrStore), val |-> ZeroStop,
          stops |-> stops, nextID |-> nextID]
    ELSE LET row == StopRow(nextID.stop + 1, stop)
         IN [err |-> NoError, val |-> scanStop(row), stops |-> stops \cup {row},
             nextID |-> [nextID EXCEPT !.stop = @ + 1]]

\* pgStopRepo.Create: INSERT INTO stops ... RETURNING.  stops.trip_id
\* REFERENCES trips(id): the insert fails when the trip row is not there.
StopRepoCreate(stop, fault) ==
  IF fault
    THEN [err |-> Wrap("repo.StopRepo.Create", ErrStore), val |-> ZeroStop,
          stops |-> stops, nextID |-> nextID]
    ELSE IF ~\E t \in trips : t.id = stop.tripID
      THEN [err |-> Wrap("repo.StopRepo.Create", ErrForeignKey), val |-> ZeroStop,
            stops |-> stops, nextID |-> nextID]
      ELSE LET row == StopRow(nextID.stop + 1, stop)
           IN [err |-> NoError, val |-> scanStop(row), stops |-> stops \cup {row},
               nextID |-> [nextID EXCEPT !.stop = @ + 1]]

\* pgStopRepo.GetByID: SELECT ... WHERE id = @id AND trip_id = @trip_id.
StopRepoGetByID(tripID, stopID, fault) ==
  IF fault
    THEN [err |-> Wrap("repo.StopRepo.GetByID", ErrStore), val |-> ZeroStop]
    ELSE IF \E s \in stops : StopMatches(s, tripID, stopID)
      THEN [err |-> NoError,
            val |-> scanStop(CHOOSE s \in stops : StopMatches(s, tripID, stopID))]
      ELSE [err |-> Wrap("repo.StopRepo.GetByID", ErrNotFound), val |-> ZeroStop]

\* pgStopRepo.Update: UPDATE stops SET ... WHERE id = @id AND trip_id = @trip_id
\* RETURNING.
StopRepoUpdate(stopID, stop, fault) ==
  IF fault
    THEN [err |-> Wrap("repo.StopRepo.Update", ErrStore), val |-> ZeroStop,
          stops |-> stops]
    ELSE IF \E s \in stops : StopMatches(s, stop.tripID, stopID)
      THEN LET old == CHOOSE s \in stops : StopMatches(s, stop.tripID, stopID)
               row == [StopRow(stopID, stop) EXCEPT !.tripID = old.tripID]
           IN [err |-> NoError, val |-> scanStop(row),
               stops |-> (stops \ {old}) \cup {row}]
      ELSE [err |-> Wrap("repo.StopRepo.Update", ErrNotFound), val |-> ZeroStop,
            stops |-> stops]

\* pgStopRepo.Delete: DELETE FROM stops WHERE id = @id AND trip_id = @trip_id.
\* stop_tags.stop_id is ON DELETE CASCADE.
StopRepoDelete(tripID, stopID, fault) ==
  IF fault
    THEN [err |-> Wrap("repo.StopRepo.Delete", ErrStore), stops |-> stops,
          stopTags |-> stopTags]
    ELSE IF \E s \in stops : StopMatches(s, tripID, stopID)
      THEN [err |-> NoError,
            stops |-> {s \in stops : ~StopMatches(s, tripID, stopID)},
            stopTags |-> {l \in stopTags : l.stopID # stopID}]
      ELSE [err |-> Wrap("repo.StopRepo.Delete", ErrNotFound), stops |-> stops,
            stopTags |-> stopTags]

\* A mutation of TagRepoRemoveFromStop: the number of deleted rows is not
\* looked at.
TagRepoRemoveFromStopUnchecked(stopID, slug, fault) ==
  IF fault
    THEN [err |-> Wrap("repo.TagRepo.RemoveFromStop", ErrStore),
          stopTags |-> stopTags, tags |-> tags]
    ELSE [err |-> NoError,
          stopTags |-> {l \in stopTags :
                          ~(l.stopID = stopID
                            /\ \E t \in tags : t.slug = slug /\ t.id = l.tagID)},
          tags |-> tags]

\* A mutation of TagRepoRemoveFromStop: the tag row goes with its link.
TagRepoRemoveFromStopAndTag(stopID, slug, fault) ==
  IF fault
    THEN [err |-> Wrap("repo.TagRepo.RemoveFromStop", ErrStore),
          stopTags |-> stopTags, tags |-> tags]
    ELSE LET gone == {l \in stopTags :
                        l.stopID = stopID
                        /\ \E t \in tags : t.slug = slug /\ t.id = l.tagID}
         IN IF gone = {}
              THEN [err |-> Wrap("repo.TagRepo.RemoveFromStop", ErrNotFound),
                    stopTags |-> stopTags, tags |-> tags]
              ELSE [err |-> NoError, stopTags |-> stopTags \ gone,
                    tags |-> {t \in tags : t.slug # slug}]

\* pgTagRepo.RemoveFromStop: DELETE FROM stop_tags WHERE stop_id = @stop_id
\* AND tag_id = (SELECT id FROM tags WHERE slug = @slug); no row deleted is
\* ErrNotFound.  The statement writes to stop_tags only.
TagRepoRemoveFromStop(stopID, slug, fault) ==
  IF fault
    THEN [err |-> Wrap("repo.TagRepo.RemoveFromStop", ErrStore),
          stopTags |-> stopTags, tags |-> tags]
    ELSE LET gone == {l \in stopTags :
                        l.stopID = stopID
                        /\ \E t \in tags : t.slug = slug /\ t.id = l.tagID}
         IN IF gone = {}
              THEN [err |-> Wrap("repo.TagRepo.RemoveFromStop", ErrNotFound),
                    stopTags |-> stopTags, tags |-> tags]
              ELSE [err |-> NoError, stopTags |-> stopTags \ gone, tags |-> tags]

\* A mutation of UpsertConflict: the insert never sees a conflict.
UpsertConflictNever(row, slug) == FALSE

\* ON CONFLICT (slug): the row that the unique constraint tags_slug_key
\* makes the insert collide with.
UpsertConflict(row, slug) == row.slug = slug

\* A mutation of UpsertConflictRow: the conflicting row takes the new name.
UpsertConflictRowRenamed(row, name, slug) == [row EXCEPT !.name = name, !.slug = slug]

\* DO UPDATE SET slug = EXCLUDED.slug: what the conflicting row becomes.
UpsertConflictRow(row, name, slug) == [row EXCEPT !.slug = slug]

\* pgTagRepo.Upsert: INSERT INTO tags (name, slug) ... ON CONFLICT (slug)
\* DO UPDATE SET slug = EXCLUDED.slug RETURNING.
TagRepoUpsert(name, slug, fault) ==
  IF fault
    THEN [err |-> Wrap("repo.TagRepo.Upsert", ErrStore), val |-> ZeroTag,
          tags |-> tags, nextID |-> nextID]
    ELSE IF \E t \in tags : UpsertConflict(t, slug)
      THEN LET old == CHOOSE t \in tags : UpsertConflict(t, slug)
               row == UpsertConflictRow(old, name, slug)
           IN [err |-> NoError, val |-> row, tags |-> (tags \ {old}) \cup {row},
               nextID |-> nextID]
      ELSE LET row == [id |-> nextID.tag + 1, name |-> name, slug |-> slug]
           IN [err |-> NoError, val |-> row, tags |-> tags \cup {row},
               nextID |-> [nextID EXCEPT !.tag = @ + 1]]

\* A mutation of TagRepoAddToStop: the insert has no ON CONFLICT clause, and
\* a pair that is already linked violates the primary key.
TagRepoAddToStopNoConflictClause(stopID, tagID, fault) ==
  IF fault
    THEN [err |-> Wrap("repo.TagRepo.AddToStop", ErrStore), stopTags |-> stopTags]
    ELSE IF ~(\E s \in stops : s.id = stopID) \/ ~(\E t \in tags : t.id = tagID)
      THEN [err |-> Wrap("repo.TagRepo.AddToStop", ErrForeignKey),
            stopTags |-> stopTags]
    ELSE IF [stopID |-> stopID, tagID |-> tagID] \in stopTags
      THEN [err |-> Wrap("repo.TagRepo.AddToStop", <<"unique violation">>),
            stopTags |-> stopTags]
      ELSE [err |-> NoError,
            stopTags |-> stopTags \cup {[stopID |-> stopID, tagID |-> tagID]}]

\* pgTagRepo.AddToStop: INSERT INTO stop_tags ... ON CONFLICT (stop_id, tag_id)
\* DO NOTHING.  Both columns are foreign keys.
TagRepoAddToStop(stopID, tagID, fault) ==
  IF fault
    THEN [err |-> Wrap("repo.TagRepo.AddToStop", ErrStore), stopTags |-> stopTags]
    ELSE IF ~(\E s \in stops : s.id = stopID) \/ ~(\E t \in tags : t.id = tagID)
      THEN [err |-> Wrap("repo.TagRepo.AddToStop", ErrForeignKey),
            stopTags |-> stopTags]
      ELSE [err |-> NoError,
            stopTags |-> stopTags \cup {[stopID |-> stopID, tagID |-> tagID]}]

\* ------------------------------------------------------------------------
\* Service operations.  A call made of one statement is one action; a call
\* made of several statements is one action per statement, the call being
\* kept in pending in between, so that other calls interleave with it.
\* ------------------------------------------------------------------------

InFlight(op) == {c \in BagToSet(pending) : c.op = op}
CountInFlight(op) ==
  LET S == InFlight(op)
      RECURSIVE Sum(_)
      Sum(R) == IF R = {} THEN 0
                ELSE LET c == CHOOSE c \in R : TRUE
                     IN CopiesIn(c, pending) + Sum(R \ {c})
  IN Sum(S)
Suspend(call) == pending (+) SetToBag({call})
Resume(call) == pending (-) SetToBag({call})

\* A mutation of validateStop: the departure is not compared with the arrival.
validateStopNameOnly(stop) ==
  IF TrimSpace(stop.name) = <<>>
    THEN WithMessage(ErrValidation, "name is required")
  ELSE NoError

\* service.validateStop.
validateStop(stop) ==
  IF TrimSpace(stop.name) = <<>>
    THEN WithMessage(ErrValidation, "name is required")
  ELSE IF stop.departedAt # Null /\ stop.departedAt[1] < stop.arrivedAt
    THEN WithMessage(ErrValidation, "departed_at must not be before arrived_at")
  ELSE NoError

\* A mutation of validateTrip: the end date is not compared with the start.
validateTripNameOnly(trip) ==
  IF TrimSpace(trip.name) = <<>>
    THEN WithMessage(ErrValidation, "name is required")
  ELSE NoError

\* A mutation of validateTrip: the name is not trimmed.
validateTripNoTrim(trip) ==
  IF trip.name = <<>>
    THEN WithMessage(ErrValidation, "name is required")
  ELSE IF trip.endDate # Null /\ trip.endDate[1] < trip.startDate
    THEN WithMessage(ErrValidation, "end_date must not be before start_date")
  ELSE NoError

\* A mutation of validateTrip: an end date equal to the start is rejected.
validateTripRejectsEqual(trip) ==
  IF TrimSpace(trip.name) = <<>>
    THEN WithMessage(ErrValidation, "name is required")
  ELSE IF trip.endDate # Null /\ trip.endDate[1] <= trip.startDate
    THEN WithMessage(ErrValidation, "end_date must not be before start_date")
  ELSE NoError

\* service.validateTrip.
validateTrip(trip) ==
  IF TrimSpace(trip.name) = <<>>
    THEN WithMessage(ErrValidation, "name is required")
  ELSE IF trip.endDate # Null /\ trip.endDate[1] < trip.startDate
    THEN WithMessage(ErrValidation, "end_date must not be before start_date")
  ELSE NoError

\* TripService.Create.
TripCreate(trip, fault) ==
  /\ IF validateTrip(trip) # NoError
       THEN /\ ret' = Return("Trip.Create", [trip |-> trip], validateTrip(trip),
                             [trip |-> ZeroTrip])
            /\ UNCHANGED <<trips, nextID>>
       ELSE /\ nextID.trip < MaxTrips
            /\ LET r == TripRepoCreate(trip, fault)
               IN /\ trips' = r.trips
                  /\ nextID' = r.nextID
                  /\ ret' = IF r.err # NoError
                       THEN Return("Trip.Create", [trip |-> trip],
                                   Wrap("service.TripService.Create", r.err),
                                   [trip |-> ZeroTrip])
                       ELSE Return("Trip.Create", [trip |-> trip], NoError,
                                   [trip |-> r.val])
  /\ UNCHANGED <<stops, tags, stopTags, pending, slugTest>>

\* TripService.Update: validateTrip, then repo.Update.
TripUpdate(id, trip, fault) ==
  /\ IF validateTrip(trip) # NoError
       THEN /\ ret' = Return("Trip.Update", [id |-> id, trip |-> trip],
                             validateTrip(trip), [trip |-> ZeroTrip])
            /\ UNCHANGED trips
       ELSE LET r == TripRepoUpdate(id, trip, fault)
            IN /\ trips' = r.trips
               /\ ret' = Return("Trip.Update", [id |-> id, trip |-> trip],
                                IF r.err # NoError
                                  THEN Wrap("service.TripService.Update", r.err)
                                  ELSE NoError,
                                [trip |-> r.val])
  /\ UNCHANGED <<stops, tags, stopTags, nextID, pending, slugTest>>

\* TripService.GetByID.
TripGetByID(id, fault) ==
  /\ LET r == TripRepoGetByID(id, fault)
     IN ret' = Return("Trip.GetByID", [id |-> id],
                      IF r.err # NoError
                        THEN Wrap("service.TripService.GetByID", r.err)
                        ELSE NoError,
                      [trip |-> r.val])
  /\ UNCHANGED <<db, pending, slugTest>>

\* TripService.Delete.
TripDelete(id, fault) ==
  /\ LET r == TripRepoDelete(id, fault)
     IN /\ trips' = r.trips
        /\ stops' = r.stops
        /\ stopTags' = r.stopTags
        /\ ret' = Return("Trip.Delete", [id |-> id],
                         IF r.err # NoError
                           THEN Wrap("service.TripService.Delete", r.err)
                           ELSE NoError,
                         [none |-> TRUE])
  /\ UNCHANGED <<tags, nextID, pending, slugTest>>

\* A mutation of StopCreateOrder: field validation before the trip lookup.
StopCreateValidatesFirst(lookupErr, validationErr) ==
  IF validationErr # NoError THEN validationErr
  ELSE IF lookupErr # NoError THEN Wrap("service.StopService.Create", lookupErr)
  ELSE NoError

\* StopService.Create up to its insert: the error of the trip lookup comes
\* first, then the error of validateStop.
StopCreateOrder(lookupErr, validationErr) ==
  IF lookupErr # NoError THEN Wrap("service.StopService.Create", lookupErr)
  ELSE IF validationErr # NoError THEN validationErr
  ELSE NoError

\* StopService.Create, first statement: trips.GetByID, then validateStop.
StopCreateCheck(stop, fault) ==
  /\ LET r == TripRepoGetByID(stop.tripID, fault)
         err == StopCreateOrder(r.err, validateStop(stop))
     IN IF err # NoError
          THEN /\ ret' = Return("Stop.Create", [stop |-> stop, lookup |-> r.err],
                                err, [stop |-> ZeroStop])
               /\ UNCHANGED pending
          ELSE /\ nextID.stop + CountInFlight("Stop.Create") < MaxStops
               /\ BagCardinality(pending) < MaxInFlight
               /\ pending' = Suspend([op |-> "Stop.Create", stop |-> stop])
               /\ UNCHANGED ret
  /\ UNCHANGED <<db, slugTest>>

\* StopService.Create, second statement: stops.Create.
StopCreateInsert(call, fault) ==
  /\ call \in InFlight("Stop.Create")
  /\ pending' = Resume(call)
  /\ LET r == StopRepoCreate(call.stop, fault)
     IN /\ stops' = r.stops
        /\ nextID' = r.nextID
        /\ ret' = IF r.err # NoError
             THEN Return("Stop.Create", [stop |-> call.stop, lookup |-> NoError],
                         Wrap("service.StopService.Create", r.err),
                         [stop |-> ZeroStop])
             ELSE Return("Stop.Create", [stop |-> call.stop, lookup |-> NoError],
                         NoError, [stop |-> r.val])
  /\ UNCHANGED <<trips, tags, stopTags, slugTest>>

\* StopService.GetByID.
StopGetByID(tripID, stopID, fault) ==
  /\ LET r == StopRepoGetByID(tripID, stopID, fault)
     IN ret' = Return("Stop.GetByID", [tripID |-> tripID, stopID |-> stopID],
                      IF r.err # NoError
                        THEN Wrap("service.StopService.GetByID", r.err)
                        ELSE NoError,
                      [stop |-> r.val])
  /\ UNCHANGED <<db, pending, slugTest>>

\* StopService.Update: validateStop, then stops.Update.
StopUpdate(stopID, stop, fault) ==
  /\ IF validateStop(stop) # NoError
       THEN /\ ret' = Return("Stop.Update", [stopID |-> stopID, stop |-> stop],
                             validateStop(stop), [stop |-> ZeroStop])
            /\ UNCHANGED stops
       ELSE LET r == StopRepoUpdate(stopID, stop, fault)
            IN /\ stops' = r.stops
               /\ ret' = Return("Stop.Update", [stopID |-> stopID, stop |-> stop],
                                IF r.err # NoError
                                  THEN Wrap("service.StopService.Update", r.err)
                                  ELSE NoError,
                                [stop |-> r.val])
  /\ UNCHANGED <<trips, tags, stopTags, nextID, pending, slugTest>>

\* StopService.Delete.
StopDelete(tripID, stopID, fault) ==
  /\ LET r == StopRepoDelete(tripID, stopID, fault)
     IN /\ stops' = r.stops
        /\ stopTags' = r.stopTags
        /\ ret' = Return("Stop.Delete", [tripID |-> tripID, stopID |-> stopID],
                         IF r.err # NoError
                           THEN Wrap("service.StopService.Delete", r.err)
                           ELSE NoError,
                         [none |-> TRUE])
  /\ UNCHANGED <<trips, tags, nextID, pending, slugTest>>

\* A mutation of validateTagName: the slug is not looked at.
validateTagNameEmptyOnly(trimmed) ==
  IF trimmed = <<>>
    THEN WithMessage(ErrValidation, "tag name is required")
  ELSE NoError

\* The checks that TagService.UpsertByName and StopService.AddTag make on
\* the trimmed name before they touch the store.
validateTagName(trimmed) ==
  IF trimmed = <<>>
    THEN WithMessage(ErrValidation, "tag name is required")
  ELSE IF toSlug(trimmed) = <<>>
    THEN WithMessage(ErrValidation, "tag name contains no usable characters")
  ELSE NoError

\* TagService.UpsertByName.
UpsertByName(name, fault) ==
  /\ LET trimmed == TrimSpace(name)
     IN IF validateTagName(trimmed) # NoError
          THEN /\ ret' = Return("Tag.UpsertByName", [name |-> name],
                                validateTagName(trimmed), [tag |-> ZeroTag])
               /\ UNCHANGED <<tags, nextID>>
          ELSE LET r == TagRepoUpsert(trimmed, toSlug(trimmed), fault)
               IN /\ r.nextID.tag <= MaxTags
                  /\ tags' = r.tags
                  /\ nextID' = r.nextID
                  /\ ret' = Return("Tag.UpsertByName", [name |-> name],
                                   IF r.err # NoError
                                     THEN Wrap("service.TagService.UpsertByName", r.err)
                                     ELSE NoError,
                                   [tag |-> r.val])
  /\ UNCHANGED <<trips, stops, stopTags, pending, slugTest>>

\* StopService.AddTag, first statement: tags.Upsert.
AddTagUpsert(stopID, name, fault) ==
  /\ LET trimmed == TrimSpace(name)
     IN IF validateTagName(trimmed) # NoError
          THEN /\ ret' = Return("Stop.AddTag", [stopID |-> stopID, name |-> name],
                                validateTagName(trimmed), [tag |-> ZeroTag])
               /\ UNCHANGED <<tags, nextID, pending>>
          ELSE LET r == TagRepoUpsert(trimmed, toSlug(trimmed), fault)
               IN /\ r.nextID.tag <= MaxTags
                  /\ tags' = r.tags
                  /\ nextID' = r.nextID
                  /\ IF r.err # NoError
                       THEN /\ ret' = Return("Stop.AddTag",
                                             [stopID |-> stopID, name |-> name],
                                             Wrap("service.StopService.AddTag", r.err),
                                             [tag |-> ZeroTag])
                            /\ UNCHANGED pending
                       ELSE /\ BagCardinality(pending) < MaxInFlight
                            /\ pending' = Suspend([op |-> "Stop.AddTag",
                                                   stopID |-> stopID, name |-> name,
                                                   tag |-> r.val])
                            /\ UNCHANGED ret
  /\ UNCHANGED <<trips, stops, stopTags, slugTest>>

\* StopService.AddTag, second statement: tags.AddToStop.
AddTagLink(call, fault) ==
  /\ call \in InFlight("Stop.AddTag")
  /\ pending' = Resume(call)
  /\ LET r == TagRepoAddToStop(call.stopID, call.tag.id, fault)
     IN /\ stopTags' = r.stopTags
        /\ ret' = IF r.err # NoError
             THEN Return("Stop.AddTag", [stopID |-> call.stopID, name |-> call.name],
                         Wrap("service.StopService.AddTag", r.err), [tag |-> ZeroTag])
             ELSE Return("Stop.AddTag", [stopID |-> call.stopID, name |-> call.name],
                         NoError, [tag |-> call.tag])
  /\ UNCHANGED <<trips, stops, tags, nextID, slugTest>>

\* StopService.RemoveTagFromStop.
RemoveTagFromStop(stopID, slug, fault) ==
  /\ LET r == TagRepoRemoveFromStop(stopID, slug, fault)
     IN /\ stopTags' = r.stopTags
        /\ tags' = r.tags
        /\ ret' = Return("Stop.RemoveTagFromStop",
                         [stopID |-> stopID, slug |-> slug],
                         IF r.err # NoError
                           THEN Wrap("service.StopService.RemoveTagFromStop", r.err)
                           ELSE NoError,
                         [none |-> TRUE])
  /\ UNCHANGED <<trips, stops, nextID, pending, slugTest>>

\* ------------------------------------------------------------------------
\* Listings
\* ------------------------------------------------------------------------

\* ORDER BY start_date DESC / arrived_at ASC / slug.
TripListOrder(a, b) == a.startDate > b.startDate
StopListOrder(a, b) == a.arrivedAt < b.arrivedAt
\* A mutation of TagListOrder: ORDER BY t.id.
TagListOrderByID(a, b) == a.id < b.id

TagListOrder(a, b) == StrLess(a.slug, b.slug)

\* pgTripRepo.List: the results the statement may give.  The slice is
\* declared without a value and appended to, so it is nil for no rows.
TripRepoList(fault) ==
  IF fault
    THEN {[err |-> Wrap("repo.TripRepo.List", ErrStore), val |-> NilSlice]}
    ELSE LET order == {p \in trips \X trips : TripListOrder(p[1], p[2])}
         IN {[err |-> NoError,
              val |-> IF q = <<>> THEN NilSlice
                      ELSE Slice([i \in 1..Len(q) |-> scanTrip(q[i])])] :
               q \in Sorted(trips, order)}

\* pgStopRepo.ListByTripID: the slice starts as an empty, non-nil slice.
StopRepoListByTripID(tripID, fault) ==
  IF fault
    THEN {[err |-> Wrap("repo.StopRepo.ListByTripID", ErrStore), val |-> NilSlice]}
    ELSE LET rows == {s \in stops : s.tripID = tripID}
             order == {p \in rows \X rows : StopListOrder(p[1], p[2])}
         IN {[err |-> NoError,
              val |-> Slice([i \in 1..Len(q) |-> scanStop(q[i])])] :
               q \in Sorted(rows, order)}

\* pgTagRepo.ListByStop: tags JOIN stop_tags WHERE stop_id = @stop_id.
TagRepoListByStop(stopID, fault) ==
  IF fault
    THEN {[err |-> Wrap("repo.TagRepo.ListByStop", ErrStore), val |-> NilSlice]}
    ELSE LET rows == {t \in tags :
                        [stopID |-> stopID, tagID |-> t.id] \in stopTags}
             order == {p \in rows \X rows : TagListOrder(p[1], p[2])}
         IN {[err |-> NoError, val |-> Slice(q)] : q \in Sorted(rows, order)}

\* str starts with prefix.
HasPrefix(str, prefix) ==
  Len(prefix) <= Len(str) /\ SubSeq(str, 1, Len(prefix)) = prefix

\* str LIKE pat in PostgreSQL: % matches any run of characters, _ any one
\* character, a backslash takes the character after it literally.
RECURSIVE Like(_, _)
Like(str, pat) ==
  IF pat = <<>> THEN str = <<>>
  ELSE IF Head(pat) = "%"
    THEN Like(str, Tail(pat)) \/ (str # <<>> /\ Like(Tail(str), pat))
  ELSE IF Head(pat) = "_"
    THEN str # <<>> /\ Like(Tail(str), Tail(pat))
  ELSE IF Head(pat) = "\\" /\ Len(pat) >= 2
    THEN str # <<>> /\ Head(str) = pat[2] /\ Like(Tail(str), Tail(Tail(pat)))
  ELSE str # <<>> /\ Head(str) = Head(pat) /\ Like(Tail(str), Tail(pat))

\* pgTagRepo.List: WHERE slug LIKE @prefix || '%' ORDER BY slug; the slice
\* starts as an empty, non-nil slice.
TagRepoList(prefix, fault) ==
  IF fault
    THEN {[err |-> Wrap("repo.TagRepo.List", ErrStore), val |-> NilSlice]}
    ELSE LET rows == {t \in tags : Like(t.slug, prefix \o <<"%">>)}
             order == {p \in rows \X rows : TagListOrder(p[1], p[2])}
         IN {[err |-> NoError, val |-> Slice(q)] : q \in Sorted(rows, order)}

\* pgTagRepo.ListPaged and pgStopRepo.ListByTripIDPaged: return nil, 0, nil.
TagRepoListPaged(prefix, p, fault) ==
  {[err |-> NoError, val |-> NilSlice, total |-> 0]}
StopRepoListByTripIDPaged(tripID, p, fault) ==
  {[err |-> NoError, val |-> NilSlice, total |-> 0]}

\* The machine integers, and the value an arithmetic result has in them
\* (two's complement, the high bits dropped).
MaxInt == 2^(IntBits - 1) - 1
MinInt == -(2^(IntBits - 1))
WrapInt(x) == ((x - MinInt) % 2^IntBits) + MinInt

\* NewPaginationParams: the defaults and the cap on the limit.
DefaultPage == 1
DefaultLimit == 20
LimitCap == 100

\* A mutation of NewPaginationParams: the limit is not capped.
NewPaginationParamsNoCap(page, limit) ==
  [page |-> IF page # Null /\ page[1] >= 1 THEN page[1] ELSE DefaultPage,
   limit |-> IF limit # Null /\ limit[1] >= 1 THEN limit[1] ELSE DefaultLimit]

\* domain.NewPaginationParams, page and limit being nil or a pointer to an int.
NewPaginationParams(page, limit) ==
  [page |-> IF page # Null /\ page[1] >= 1 THEN page[1] ELSE DefaultPage,
   limit |-> IF limit # Null /\ limit[1] >= 1
               THEN (IF limit[1] > LimitCap THEN LimitCap ELSE limit[1])
               ELSE DefaultLimit]

\* PaginationParams.Offset, in machine integers.
Offset(p) == WrapInt(WrapInt(p.page - 1) * p.limit)

\* The handlers build the parameters of a paged listing from the query.
BuildPagination(page, limit) ==
  /\ LET p == NewPaginationParams(page, limit)
     IN ret' = Return("NewPaginationParams", [page |-> page, limit |-> limit],
                      NoError, [p |-> p, offset |-> Offset(p)])
  /\ UNCHANGED <<db, pending, slugTest>>

\* The rows of a listing from the offset of the page on, at most limit rows.
PageOf(q, p) ==
  SubSeq(q, Offset(p) + 1,
         IF Offset(p) + p.limit < Len(q) THEN Offset(p) + p.limit ELSE Len(q))

\* TripRepo.ListPaged, as TripService.ListPaged uses it: the page of the
\* listing and the number of trips; a page without rows may be nil or empty.
TripRepoListPaged(p, fault) ==
  IF fault
    THEN {[err |-> Wrap("repo.TripRepo.ListPaged", ErrStore), val |-> NilSlice,
           total |-> 0]}
    ELSE LET order == {x \in trips \X trips : TripListOrder(x[1], x[2])}
         IN UNION {
              {[err |-> NoError, val |-> Slice(PageOf(q, p)),
                total |-> Cardinality(trips)]}
              \cup (IF PageOf(q, p) = <<>>
                      THEN {[err |-> NoError, val |-> NilSlice,
                             total |-> Cardinality(trips)]}
                      ELSE {}) : q \in Sorted(trips, order)}

\* A mutation of NonNil: the slice is returned as the store gave it.
NonNilUnchecked(slice) == slice

\* if x == nil { x = []T{} }: what a listing of a service returns for the
\* slice the store gave.
NonNil(slice) == IF slice.null THEN Slice(<<>>) ELSE slice

\* The return of a listing: nil (and no count) with the wrapped error, the
\* non-nil slice otherwise.
ReturnList(op, arg, r, total) ==
  IF r.err # NoError
    THEN Return(op, arg, Wrap("service." \o op, r.err),
                [list |-> NilSlice, total |-> 0])
    ELSE Return(op, arg, NoError, [list |-> NonNil(r.val), total |-> total])

\* TripService.List.
TripList(fault) ==
  /\ \E r \in TripRepoList(fault) :
       ret' = ReturnList("TripService.List", [none |-> TRUE], r, 0)
  /\ UNCHANGED <<db, pending, slugTest>>

\* TripService.ListPaged.
TripListPaged(p, fault) ==
  /\ \E r \in TripRepoListPaged(p, fault) :
       ret' = ReturnList("TripService.ListPaged", [p |-> p], r, r.total)
  /\ UNCHANGED <<db, pending, slugTest>>

\* StopService.ListByTripID.
StopListByTripID(tripID, fault) ==
  /\ \E r \in StopRepoListByTripID(tripID, fault) :
       ret' = ReturnList("StopService.ListByTripID", [tripID |-> tripID], r, 0)
  /\ UNCHANGED <<db, pending, slugTest>>

\* StopService.ListByTripIDPaged.
StopListByTripIDPaged(tripID, p, fault) ==
  /\ \E r \in StopRepoListByTripIDPaged(tripID, p, fault) :
       ret' = ReturnList("StopService.ListByTripIDPaged",
                         [tripID |-> tripID, p |-> p], r, r.total)
  /\ UNCHANGED <<db, pending, slugTest>>

\* StopService.ListTagsByStop.
ListTagsByStop(stopID, fault) ==
  /\ \E r \in TagRepoListByStop(stopID, fault) :
       ret' = ReturnList("StopService.ListTagsByStop", [stopID |-> stopID], r, 0)
  /\ UNCHANGED <<db, pending, slugTest>>

\* TagService.List: the prefix is trimmed and lowercased.
TagList(prefix, fault) ==
  /\ \E r \in TagRepoList(ToLower(TrimSpace(prefix)), fault) :
       ret' = ReturnList("TagService.List", [prefix |-> prefix], r, 0)
  /\ UNCHANGED <<db, pending, slugTest>>

\* TagService.ListPaged.
TagListPaged(prefix, p, fault) ==
  /\ \E r \in TagRepoListPaged(ToLower(TrimSpace(prefix)), p, fault) :
       ret' = ReturnList("TagService.ListPaged", [prefix |-> prefix, p |-> p],
                         r, r.total)
  /\ UNCHANGED <<db, pending, slugTest>>

\* ------------------------------------------------------------------------
\* The handlers of the tag routes under /trips/{tripId}/stops/{stopId}/tags.
\* Each passes the stop identifier of the path (and the name of the body or
\* the slug of the path) to the stop service; the trip identifier of the
\* path is not used.
\* ------------------------------------------------------------------------

\* A mutation of ServerListTagsByStop: a stop that is not a stop of the trip
\* of the path is not found.
ServerListTagsByStopScoped(tripID, stopID, fault) ==
  IF \E s \in stops : s.id = stopID /\ s.tripID = tripID
    THEN ListTagsByStop(stopID, fault)
    ELSE /\ ret' = Return("StopService.ListTagsByStop", [stopID |-> stopID],
                          Wrap("service.StopService.ListTagsByStop", ErrNotFound),
                          [list |-> NilSlice, total |-> 0])
         /\ UNCHANGED <<db, pending, slugTest>>

\* Server.ListTagsByStop: s.stops.ListTagsByStop(ctx, req.StopId).
ServerListTagsByStop(tripID, stopID, fault) == ListTagsByStop(stopID, fault)

\* Server.AddTagToStop: s.stops.AddTag(ctx, req.StopId, req.Body.Name), up to
\* the first statement of AddTag; AddTagLink is its second.
ServerAddTagToStop(tripID, stopID, name, fault) == AddTagUpsert(stopID, name, fault)

\* Server.RemoveTagFromStop: s.stops.RemoveTagFromStop(ctx, req.StopId, req.Slug).
ServerRemoveTagFromStop(tripID, stopID, slug, fault) ==
  RemoveTagFromStop(stopID, slug, fault)

\* The response the handler of a tag route makes of the return r of the stop
\* service.
TagRouteResponse(r) ==
  IF r.err = NoError
    THEN [status |-> CASE r.op = "Stop.AddTag" -> 201
                       [] r.op = "Stop.RemoveTagFromStop" -> 204
                       [] OTHER -> 200,
          message |-> ""]
  ELSE IF ErrorsIs(r.err, ErrNotFound)
    THEN [status |-> 404,
          message |-> IF r.op = "Stop.RemoveTagFromStop"
                        THEN "tag not linked to stop" ELSE "stop not found"]
  ELSE IF r.op = "Stop.AddTag" /\ ErrorsIs(r.err, ErrValidation)
    THEN [status |-> 422, message |-> "validation"]
  ELSE [status |-> 500, message |-> "error"]

\* ------------------------------------------------------------------------
\* ExportService.Export: one statement for the trips, then for each trip one
\* for its stops, then for each stop one for its tags.  The call is kept in
\* exp between its statements; exp.log lists the statements it has issued,
\* exp.seen the stores that have existed since its first statement.
\* ------------------------------------------------------------------------

ExportIdle == [pc |-> "idle"]

\* trip.ID.String(), time.Format("2006-01-02").
UUIDString(id) == <<"uuid", id>>
FormatDate(t) == <<"2006-01-02", t>>

\* The row started for a trip: the trip fields, every stop field at its zero
\* value.
TripBase(trip) ==
  [tripID |-> UUIDString(trip.id),
   tripName |-> trip.name,
   tripStartDate |-> FormatDate(trip.startDate),
   tripEndDate |-> IF trip.endDate # Null THEN FormatDate(trip.endDate[1]) ELSE <<>>,
   stopName |-> <<>>, stopLocation |-> <<>>, arrivedAt |-> Null,
   departedAt |-> Null, stopNotes |-> <<>>, tags |-> NilSlice]

\* A mutation of StopRowOf: the stop fields are not set.
StopRowOfBase(base, stop, stopTagList) == base

\* The row of a stop: a copy of the trip's row with the stop fields set.
StopRowOf(base, stop, stopTagList) ==
  [base EXCEPT !.stopName = stop.name,
               !.stopLocation = stop.location,
               !.arrivedAt = Some(stop.arrivedAt),
               !.departedAt = stop.departedAt,
               !.stopNotes = stop.notes,
               !.tags = Slice([i \in 1..Len(stopTagList) |-> stopTagList[i].slug])]

\* A mutation of StoplessRows: a trip without stops is skipped.
StoplessRowsNone(base) == <<>>

\* The rows appended for a trip whose stop listing is empty.
StoplessRows(base) == <<base>>

\* A mutation of ExportErrorRows: the rows built so far go with the error.
ExportErrorRowsPartial(rows) == Slice(rows)

\* The rows returned next to an error.
ExportErrorRows(rows) == NilSlice

LogEntry(call, arg, err) == [call |-> call, arg |-> arg, err |-> err]

ExportReturn(err, rows, e) ==
  /\ exp' = ExportIdle
  /\ ret' = Return("Export", [none |-> TRUE], err,
                   [rows |-> rows, listing |-> e.trips, log |-> e.log,
                    seen |-> e.seen])

\* After the rows of trip e.i: the next trip, or the return.
ExportNextTrip(e) ==
  IF e.i = Len(e.trips)
    THEN ExportReturn(NoError, Slice(e.rows), e)
    ELSE /\ exp' = [e EXCEPT !.pc = "stops", !.i = @ + 1, !.stops = <<>>, !.j = 0]
         /\ UNCHANGED ret

\* Export, first statement: trips.List.
ExportListTrips(fault) ==
  /\ exp.pc = "idle"
  /\ \E r \in TripRepoList(fault) :
       LET e == [pc |-> "stops", trips |-> r.val.items, i |-> 1, stops |-> <<>>,
                 j |-> 0, rows |-> <<>>,
                 log |-> <<LogEntry("trips.List", 0, r.err)>>,
                 seen |-> {Store}]
       IN IF r.err # NoError
            THEN ExportReturn(Wrap("service.ExportService.Export", r.err),
                              ExportErrorRows(<<>>), e)
            ELSE IF Len(e.trips) = 0
              THEN ExportReturn(NoError, Slice(<<>>), e)
              ELSE exp' = e /\ UNCHANGED ret
  /\ UNCHANGED <<db, pending, slugTest>>

\* Export, the statement for trip exp.i: stops.ListByTripID.
ExportListStops(fault) ==
  /\ exp.pc = "stops"
  /\ LET trip == exp.trips[exp.i]
     IN \E r \in StopRepoListByTripID(trip.id, fault) :
          LET e == [exp EXCEPT
                      !.log = Append(@, LogEntry("stops.ListByTripID", trip.id, r.err))]
          IN IF r.err # NoError
               THEN ExportReturn(Wrap("service.ExportService.Export", r.err),
                                 ExportErrorRows(e.rows), e)
               ELSE IF Len(r.val.items) = 0
                 THEN ExportNextTrip(
                        [e EXCEPT !.rows = @ \o StoplessRows(TripBase(trip))])
                 ELSE /\ exp' = [e EXCEPT !.pc = "tags", !.stops = r.val.items,
                                          !.j = 1]
                      /\ UNCHANGED ret
  /\ UNCHANGED <<db, pending, slugTest>>

\* Export, the statement for stop exp.j of trip exp.i: tags.ListByStop.
ExportListTags(fault) ==
  /\ exp.pc = "tags"
  /\ LET trip == exp.trips[exp.i]
         stop == exp.stops[exp.j]
     IN \E r \in TagRepoListByStop(stop.id, fault) :
          LET e == [exp EXCEPT
                      !.log = Append(@, LogEntry("tags.ListByStop", stop.id, r.err))]
          IN IF r.err # NoError
               THEN ExportReturn(Wrap("service.ExportService.Export", r.err),
                                 ExportErrorRows(e.rows), e)
               ELSE LET e2 == [e EXCEPT
                                 !.rows = Append(@, StopRowOf(TripBase(trip), stop,
                                                              r.val.items))]
                    IN IF e.j = Len(e.stops)
                         THEN ExportNextTrip(e2)
                         ELSE /\ exp' = [e2 EXCEPT !.j = @ + 1]
                              /\ UNCHANGED ret
  /\ UNCHANGED <<db, pending, slugTest>>

\* strings.Join(elems, sep).
RECURSIVE Join(_, _)
Join(elems, sep) ==
  IF elems = <<>> THEN <<>>
  ELSE IF Len(elems) = 1 THEN elems[1]
  ELSE elems[1] \o sep \o Join(Tail(elems), sep)

\* handler.domainRowToCSVRecord, the tags column.
CSVTags(row) == Join(row.tags.items, <<"|">>)

\* ------------------------------------------------------------------------
\* Specifications
\* ------------------------------------------------------------------------

\* The store after the migrations: no rows.
Init ==
  /\ trips = {} /\ stops = {} /\ tags = {} /\ stopTags = {}
  /\ nextID = [trip |-> 0, stop |-> 0, tag |-> 0]
  /\ pending = EmptyBag
  /\ exp = ExportIdle
  /\ ret = NoCall
  /\ slugTest = [name |-> <<>>, variant |-> <<>>, slug |-> Null,
                 variantSlug |-> Null, reslug |-> Null]

\* TagSpec: the tag operations, UpsertByName and AddTag, with up to
\* MaxInFlight AddTag calls between their two statements, on a store that
\* holds one trip with one stop; the second stop identifier names no stop.
FixtureTrip == [id |-> 1, name |-> <<"a">>, startDate |-> 1, endDate |-> Null]
FixtureStop ==
  [id |-> 1, tripID |-> 1, name |-> <<"a">>, location |-> Null, arrivedAt |-> 1,
   departedAt |-> Null, notes |-> Null]

TagInit ==
  /\ trips = {FixtureTrip} /\ stops = {FixtureStop}
  /\ tags = {} /\ stopTags = {}
  /\ nextID = [trip |-> 1, stop |-> 1, tag |-> 0]
  /\ pending = EmptyBag
  /\ exp = ExportIdle
  /\ ret = NoCall
  /\ slugTest = [name |-> <<>>, variant |-> <<>>, slug |-> Null,
                 variantSlug |-> Null, reslug |-> Null]

TagNext ==
  /\ \/ \E n \in TagNameInputs : UpsertByName(n, FALSE)
     \/ \E id \in StopIDs, n \in TagNameInputs : AddTagUpsert(id, n, FALSE)
     \/ \E c \in BagToSet(pending) : AddTagLink(c, FALSE)
  /\ UNCHANGED exp

TagSpec == TagInit /\ [][TagNext]_vars

\* C26 (the claim as stated): AddTag with a usable name on a stop
\* identifier that names no stop fails with NotFound.
C26_AddTagMissingStopNotFound ==
  (/\ ret.op = "Stop.AddTag"
   /\ ~\E s \in stops : s.id = ret.arg.stopID
   /\ validateTagName(TrimSpace(ret.arg.name)) = NoError) =>
    ErrorsIs(ret.err, ErrNotFound)

\* AddTag on a stop identifier that names no stop has failed with the
\* foreign-key error of the insert into stop_tags, which is not NotFound.
C26_ForeignKeyError ==
  /\ ret.op = "Stop.AddTag"
  /\ ~\E s \in stops : s.id = ret.arg.stopID
  /\ ErrorsIs(ret.err, ErrForeignKey)
  /\ ~ErrorsIs(ret.err, ErrNotFound)

\* AtomSpec: AddTag calls only, each statement failing or not, on the store
\* of TagSpec.  Nothing removes a link, so as long as no link is stored no
\* AddTag call has succeeded.
AtomNext ==
  /\ \/ \E id \in StopIDs, n \in TagNameInputs, f \in BOOLEAN : AddTagUpsert(id, n, f)
     \/ \E c \in BagToSet(pending), f \in BOOLEAN : AddTagLink(c, f)
  /\ UNCHANGED exp

AtomSpec == TagInit /\ [][AtomNext]_vars

\* C28 (the claim as stated): an AddTag call that returns an error leaves the
\* tags and the links as they were before the call, also when its upsert
\* succeeded and its link statement failed: when every call so far has
\* returned an error (no call is in flight and no link is stored), the store
\* holds no tag, as before the first call.
C28_AddTagAllOrNothing ==
  (pending = EmptyBag /\ stopTags = {}) => tags = {}

\* AddTag has returned the error of its link statement, no call has
\* succeeded or is in flight, and the tag of its upsert is stored.
C28_OrphanTag ==
  /\ ret.op = "Stop.AddTag" /\ ret.err # NoError
  /\ pending = EmptyBag /\ stopTags = {}
  /\ \E t \in tags : t.slug = toSlug(TrimSpace(ret.arg.name))

\* C1: after any interleaving of UpsertByName and AddTag calls, no two rows
\* of the tags table have the same slug.
C1_SlugUnique ==
  \A t1, t2 \in tags : t1.slug = t2.slug => t1 = t2

\* An AddTag call is between its two statements, two tags are stored, and an
\* UpsertByName has returned the tag of the AddTag call's slug for a name
\* spelled differently.
C1_Witness ==
  /\ Cardinality(tags) = 2
  /\ ret.op = "Tag.UpsertByName" /\ ret.err = NoError
  /\ \E c \in InFlight("Stop.AddTag") :
       /\ c.tag.slug = ret.val.tag.slug
       /\ c.name # ret.arg.name

\* C2: when the slug of the name already has a row, an upsert (by
\* UpsertByName or by AddTag) adds no row and changes none, UpsertByName
\* returns that row (its identifier and its first-stored name), and so does
\* AddTag when its link statement returns.
C2_UpsertFirstWriterWins ==
  [][/\ \A n \in TagNameInputs :
          LET slug == toSlug(TrimSpace(n))
          IN (\E t \in tags : t.slug = slug) =>
               LET first == CHOOSE t \in tags : t.slug = slug
               IN /\ UpsertByName(n, FALSE) =>
                       /\ tags' = tags
                       /\ ret'.err = NoError
                       /\ ret'.val.tag.id = first.id
                       /\ ret'.val.tag.name = first.name
                  /\ (\E id \in StopIDs : AddTagUpsert(id, n, FALSE)) =>
                       /\ tags' = tags
                       /\ \A c \in BagToSet(pending') :
                            c.name = n => c.tag = first
     /\ \A c \in BagToSet(pending) :
          (AddTagLink(c, FALSE) /\ ret'.err = NoError) =>
             /\ ret'.val.tag \in tags
             /\ ret'.val.tag.slug = toSlug(TrimSpace(c.name))
    ]_vars

\* UpsertByName has returned a stored tag whose name is not the name it was
\* called with: the row was first stored under another spelling.
C2_Witness ==
  /\ ret.op = "Tag.UpsertByName" /\ ret.err = NoError
  /\ ret.val.tag \in tags
  /\ ret.val.tag.name # TrimSpace(ret.arg.name)
  /\ ret.val.tag.slug = toSlug(TrimSpace(ret.arg.name))

\* A name without a letter a-z, A-Z or a digit: empty, white space,
\* punctuation.
NoUsableChar(name) ==
  \A i \in 1..Len(name) : name[i] \notin LowerLetters \cup UpperLetters \cup Digits

\* C15: AddTag with a name that is empty, white space only or without any
\* letter or digit returns a validation error, whether or not the store
\* would fail, stores no tag and no link, and leaves no call in flight that
\* would link one.
C15_AddTagRejectsUnusableName ==
  [][\A id \in StopIDs, n \in TagNameInputs, f \in BOOLEAN :
       (NoUsableChar(n) /\ AddTagUpsert(id, n, f))
         => /\ ret'.op = "Stop.AddTag" /\ ret'.arg.name = n
            /\ ErrorsIs(ret'.err, ErrValidation)
            /\ ~ErrorsIs(ret'.err, ErrStore)
            /\ ret'.val.tag = ZeroTag
            /\ UNCHANGED <<db, pending>>]_vars

\* AddTag of a punctuation-only name to a stored stop has returned a
\* validation error in a store that holds a tag and a link of that stop.
C15_Witness ==
  /\ ret.op = "Stop.AddTag" /\ ErrorsIs(ret.err, ErrValidation)
  /\ ret.arg.name = <<"!">>
  /\ \E st \in stops : st.id = ret.arg.stopID
  /\ \E l \in stopTags : l.stopID = ret.arg.stopID
  /\ \A t \in tags : t.slug # <<>>

\* ------------------------------------------------------------------------
\* LinkSpec: AddTag calls, the link statement failing or not, on a store in
\* which the stop already has the tag "a"; no link is ever removed.
\* ------------------------------------------------------------------------

FixtureTag == [id |-> 1, name |-> <<"a">>, slug |-> <<"a">>]
FixtureLink == [stopID |-> 1, tagID |-> 1]

LinkInit ==
  /\ trips = {FixtureTrip} /\ stops = {FixtureStop}
  /\ tags = {FixtureTag} /\ stopTags = {FixtureLink}
  /\ nextID = [trip |-> 1, stop |-> 1, tag |-> 1]
  /\ pending = EmptyBag
  /\ exp = ExportIdle
  /\ ret = NoCall
  /\ slugTest = [name |-> <<>>, variant |-> <<>>, slug |-> Null,
                 variantSlug |-> Null, reslug |-> Null]

LinkNext ==
  /\ \/ \E id \in StopIDs, n \in TagNameInputs : AddTagUpsert(id, n, FALSE)
     \/ \E c \in BagToSet(pending), f \in BOOLEAN : AddTagLink(c, f)
  /\ UNCHANGED exp

LinkSpec == LinkInit /\ [][LinkNext]_vars

\* C16: the link statement of AddTag on a (stop, tag) pair that is already
\* linked succeeds, returns the tag, and leaves the links as they are; the
\* tags listed for a stop are pairwise different.
C16_RelinkIsNoOp ==
  /\ [][\A c \in BagToSet(pending) :
          (AddTagLink(c, FALSE) /\ [stopID |-> c.stopID, tagID |-> c.tag.id] \in stopTags)
            => /\ ret'.op = "Stop.AddTag" /\ ret'.err = NoError
               /\ ret'.val.tag = c.tag
               /\ UNCHANGED db]_vars
  /\ [](\A id \in StopIDs :
          \A r \in TagRepoListByStop(id, FALSE) :
            \A i, j \in 1..Len(r.val.items) :
              r.val.items[i].id = r.val.items[j].id => i = j)

\* AddTag of "A" to the stop that has the tag "a" from the start has
\* returned that tag without error; the stop has that one link and another.
C16_Witness ==
  /\ ret.op = "Stop.AddTag" /\ ret.err = NoError
  /\ ret.arg.stopID = FixtureLink.stopID /\ ret.arg.name = <<"A">>
  /\ ret.val.tag = FixtureTag
  /\ FixtureLink \in stopTags /\ Cardinality(stopTags) = 2

\* StopSpec: trips are created and deleted, stops are created, read, updated
\* and deleted through every trip identifier, from the empty store.
StopSpecTrips == {[name |-> <<"a">>, startDate |-> 1, endDate |-> Null]}
StopSpecStops ==
  {[tripID |-> t, name |-> n, location |-> <<>>, arrivedAt |-> 2,
    departedAt |-> d, notes |-> <<>>] :
     t \in TripIDs, n \in {<<>>, <<"a">>}, d \in Opt(Times)}

StopNext ==
  /\ \/ \E t \in StopSpecTrips : TripCreate(t, FALSE)
     \/ \E id \in TripIDs : TripDelete(id, FALSE)
     \/ \E s \in StopSpecStops, f \in BOOLEAN : StopCreateCheck(s, f)
     \/ \E c \in BagToSet(pending) : StopCreateInsert(c, FALSE)
     \/ \E t \in TripIDs, id \in StopIDs : StopGetByID(t, id, FALSE)
     \/ \E id \in StopIDs, s \in StopSpecStops : StopUpdate(id, s, FALSE)
     \/ \E t \in TripIDs, id \in StopIDs : StopDelete(t, id, FALSE)
  /\ UNCHANGED exp

StopSpec == Init /\ [][StopNext]_vars

C29_NoStopOfDeletedTrip ==
  /\ [][\A c \in BagToSet(pending) :
          (/\ c.op = "Stop.Create"
           /\ StopCreateInsert(c, FALSE)
           /\ ~\E t \in trips : t.id = c.stop.tripID) =>
            /\ ret'.op = "Stop.Create" /\ ret'.arg.stop = c.stop
            /\ ret'.err # NoError
            /\ stops' = stops]_vars
  /\ [](\A s \in stops : \E t \in trips : t.id = s.tripID)

\* Stop.Create has passed its existence check, its trip was deleted, and its
\* insert has failed on the foreign key; the one stop created so far is no
\* longer in the store.
C29_Witness ==
  /\ ret.op = "Stop.Create" /\ ret.arg.lookup = NoError
  /\ ErrorsIs(ret.err, ErrForeignKey)
  /\ ~\E t \in trips : t.id = ret.arg.stop.tripID
  /\ nextID.stop = 1 /\ stops = {}

\* C10: for every stop of the store and every trip identifier other than its
\* parent's, pgStopRepo's GetByID, Update and Delete under that identifier
\* fail with NotFound and leave the stops table and the links as they are.
C10_StopScopedToTrip ==
  \A s \in stops, t \in TripIDs :
    t # s.tripID =>
      /\ ErrorsIs(StopRepoGetByID(t, s.id, FALSE).err, ErrNotFound)
      /\ \A in \in StopSpecStops :
           in.tripID = t =>
             /\ ErrorsIs(StopRepoUpdate(s.id, in, FALSE).err, ErrNotFound)
             /\ StopRepoUpdate(s.id, in, FALSE).stops = stops
      /\ ErrorsIs(StopRepoDelete(t, s.id, FALSE).err, ErrNotFound)
      /\ StopRepoDelete(t, s.id, FALSE).stops = stops
      /\ StopRepoDelete(t, s.id, FALSE).stopTags = stopTags

\* Update, under the identifier of a trip that exists and is not the stop's
\* parent, has returned NotFound for fields that differ from the stop's, and
\* the stop is in the store.
C10_Witness ==
  /\ ret.op = "Stop.Update" /\ ErrorsIs(ret.err, ErrNotFound)
  /\ \E t \in trips : t.id = ret.arg.stop.tripID
  /\ \E s \in stops :
       /\ s.id = ret.arg.stopID
       /\ s.tripID # ret.arg.stop.tripID
       /\ s.departedAt # ret.arg.stop.departedAt

\* ------------------------------------------------------------------------
\* ValidateSpec: trips and stops are created and updated with blank and
\* usable names and with dates in either order, from the empty store.
\* ------------------------------------------------------------------------

ValidateTrips ==
  {[name |-> <<"a">>, startDate |-> 1, endDate |-> Null],
   [name |-> <<"a">>, startDate |-> MaxTime, endDate |-> Some(MaxTime)],
   [name |-> <<" ">>, startDate |-> 1, endDate |-> Null],
   [name |-> <<"a">>, startDate |-> MaxTime, endDate |-> Some(1)]}

ValidateStops ==
  {[tripID |-> 1, name |-> n, location |-> <<>>, arrivedAt |-> a,
    departedAt |-> d, notes |-> <<>>] :
     n \in {<<" ">>, <<"a">>}, a \in Times, d \in Opt(Times)}

ValidateNext ==
  /\ \/ \E t \in ValidateTrips : TripCreate(t, FALSE)
     \/ \E id \in TripIDs, t \in ValidateTrips : TripUpdate(id, t, FALSE)
     \/ \E s \in ValidateStops : StopCreateCheck(s, FALSE)
     \/ \E c \in BagToSet(pending) : StopCreateInsert(c, FALSE)
     \/ \E id \in StopIDs, s \in ValidateStops, f \in BOOLEAN : StopUpdate(id, s, f)
  /\ UNCHANGED exp

ValidateSpec == Init /\ [][ValidateNext]_vars

\* TripSpec: trips are created, updated and deleted with every combination
\* of name and dates, the store failing or not, from the empty store.
TripNext ==
  /\ \/ \E t \in TripInputs, f \in BOOLEAN : TripCreate(t, f)
     \/ \E id \in TripIDs, t \in TripInputs, f \in BOOLEAN : TripUpdate(id, t, f)
     \/ \E id \in TripIDs, f \in BOOLEAN : TripDelete(id, f)
  /\ UNCHANGED exp

TripSpec == Init /\ [][TripNext]_vars

\* A name that is empty or made of white space only.
Blank(name) == \A i \in 1..Len(name) : name[i] \in Spaces

\* An end that is given and strictly before the start.
EndsBeforeStart(start, end) == end # Null /\ end[1] < start

\* C11: every trip row has a name that is not blank and an end date that is
\* absent or not before its start date; every stop row has a name that is
\* not blank and a departure that is absent or not before its arrival.
C11_PersistedRowsValid ==
  /\ \A t \in trips : ~Blank(t.name) /\ ~EndsBeforeStart(t.startDate, t.endDate)
  /\ \A s \in stops : ~Blank(s.name) /\ ~EndsBeforeStart(s.arrivedAt, s.departedAt)

\* A trip has been updated to end on its start date and holds a stop that
\* was updated to a departure later than its arrival, after a blank-named
\* update of that stop was refused.
C11_Witness ==
  /\ ret.op = "Stop.Update" /\ ErrorsIs(ret.err, ErrValidation)
  /\ Blank(ret.arg.stop.name)
  /\ \E t \in trips, s \in stops :
       /\ t.endDate = Some(t.startDate) /\ t.startDate > 1
       /\ s.tripID = t.id /\ s.id = ret.arg.stopID
       /\ s.departedAt # Null /\ s.departedAt[1] > s.arrivedAt

\* C12: TripService.Create and TripService.Update of a trip whose name is
\* blank return a validation error, whether or not the store would fail,
\* and leave the store as it is.
C12_BlankTripNameRejected ==
  [][\A t \in TripInputs, f \in BOOLEAN :
       (Blank(t.name) /\ (TripCreate(t, f) \/ \E id \in TripIDs : TripUpdate(id, t, f)))
         => /\ ErrorsIs(ret'.err, ErrValidation)
            /\ ~ErrorsIs(ret'.err, ErrStore)
            /\ ret'.val.trip = ZeroTrip
            /\ UNCHANGED <<db, pending>>]_vars

\* Update of a stored trip to a name of white space has returned a
\* validation error, and the trip has its name.
C12_Witness ==
  /\ ret.op = "Trip.Update" /\ ErrorsIs(ret.err, ErrValidation)
  /\ ret.arg.trip.name = <<" ">>
  /\ \E t \in trips : t.id = ret.arg.id /\ t.name = <<"a">>

\* C13: with a name that is not blank and a store that does not fail,
\* TripService.Create and TripService.Update return a validation error
\* exactly when the end date is given and strictly before the start date;
\* otherwise Create stores the trip with these dates and Update of a stored
\* trip writes them.
C13_TripEndBeforeStartRejected ==
  [][\A t \in TripInputs :
       ~Blank(t.name) =>
         /\ TripCreate(t, FALSE) =>
              IF EndsBeforeStart(t.startDate, t.endDate)
                THEN ErrorsIs(ret'.err, ErrValidation) /\ UNCHANGED db
                ELSE /\ ret'.err = NoError
                     /\ ret'.val.trip \in trips' \ trips
                     /\ ret'.val.trip.startDate = t.startDate
                     /\ ret'.val.trip.endDate = t.endDate
         /\ \A id \in TripIDs :
              TripUpdate(id, t, FALSE) =>
                IF EndsBeforeStart(t.startDate, t.endDate)
                  THEN ErrorsIs(ret'.err, ErrValidation) /\ UNCHANGED db
                  ELSE /\ ~ErrorsIs(ret'.err, ErrValidation)
                       /\ (\E old \in trips : old.id = id) =>
                            /\ ret'.err = NoError
                            /\ [id |-> id, name |-> t.name, startDate |-> t.startDate,
                                endDate |-> t.endDate] \in trips']_vars

\* A trip created with its end date on its start date has been stored, and
\* an update of it to an end date before the start has been refused.
C13_Witness ==
  /\ ret.op = "Trip.Update" /\ ErrorsIs(ret.err, ErrValidation)
  /\ ~Blank(ret.arg.trip.name)
  /\ EndsBeforeStart(ret.arg.trip.startDate, ret.arg.trip.endDate)
  /\ \E t \in trips : t.id = ret.arg.id /\ t.endDate = Some(t.startDate)

\* C14: StopService.Create, once it has found the parent trip, and
\* StopService.Update, of a stop whose departure is given and strictly before
\* its arrival, return a validation error and write nothing.
C14_StopDepartureBeforeArrivalRejected ==
  [][\A s \in ValidateStops :
       EndsBeforeStart(s.arrivedAt, s.departedAt) =>
         /\ (StopCreateCheck(s, FALSE) /\ \E t \in trips : t.id = s.tripID)
              => /\ ErrorsIs(ret'.err, ErrValidation)
                 /\ ret'.arg.stop = s
                 /\ UNCHANGED <<db, pending>>
         /\ \A id \in StopIDs, f \in BOOLEAN :
              StopUpdate(id, s, f)
                => /\ ErrorsIs(ret'.err, ErrValidation)
                   /\ ~ErrorsIs(ret'.err, ErrStore)
                   /\ UNCHANGED <<db, pending>>]_vars

\* Update of a stored stop, through its parent trip and with a usable name,
\* to a departure before the arrival has returned a validation error, and
\* the stop has the departure it had.
C14_Witness ==
  /\ ret.op = "Stop.Update" /\ ErrorsIs(ret.err, ErrValidation)
  /\ ~Blank(ret.arg.stop.name)
  /\ EndsBeforeStart(ret.arg.stop.arrivedAt, ret.arg.stop.departedAt)
  /\ \E s \in stops :
       /\ s.id = ret.arg.stopID /\ s.tripID = ret.arg.stop.tripID
       /\ ~EndsBeforeStart(s.arrivedAt, s.departedAt)

\* ------------------------------------------------------------------------
\* LifeSpec: trips, stops, tags and links are created and removed, calls of
\* several statements interleaving with the others, from the empty store.
\* ------------------------------------------------------------------------

LifeTagNames == {<<"a">>, <<"A">>, <<"1">>}
LifeAddTagNames == {<<"A">>, <<"1">>}
LifeSlugs == {<<"a">>, <<"1">>}
LifeStops ==
  {[tripID |-> t, name |-> <<"a">>, location |-> <<>>, arrivedAt |-> 1,
    departedAt |-> Null, notes |-> <<>>] : t \in TripIDs}

LifeNext ==
  /\ \/ \E t \in StopSpecTrips : TripCreate(t, FALSE)
     \/ \E id \in TripIDs : TripDelete(id, FALSE)
     \/ \E s \in LifeStops : StopCreateCheck(s, FALSE)
     \/ \E c \in BagToSet(pending) : StopCreateInsert(c, FALSE)
     \/ \E t \in TripIDs, id \in StopIDs : StopDelete(t, id, FALSE)
     \/ \E n \in LifeTagNames : UpsertByName(n, FALSE)
     \/ \E id \in StopIDs, n \in LifeAddTagNames : AddTagUpsert(id, n, FALSE)
     \/ \E c \in BagToSet(pending) : AddTagLink(c, FALSE)
     \/ \E id \in StopIDs, sl \in LifeSlugs : RemoveTagFromStop(id, sl, FALSE)
  /\ UNCHANGED exp

LifeSpec == Init /\ [][LifeNext]_vars

\* The links of the stop to the tag that has the slug.
LinksOf(stopID, slug) ==
  {l \in stopTags : l.stopID = stopID
                    /\ \E t \in tags : t.id = l.tagID /\ t.slug = slug}

\* C17: RemoveTagFromStop with a slug that is not linked to the stop, and
\* Trip.Delete with an identifier that has no trip, return NotFound and
\* change nothing; RemoveTagFromStop with a slug that is linked to the stop
\* succeeds and removes that one link and nothing else.
C17_RemovingAbsentIsNotFound ==
  [][/\ \A id \in StopIDs, sl \in LifeSlugs :
          RemoveTagFromStop(id, sl, FALSE) =>
            IF LinksOf(id, sl) = {}
              THEN ErrorsIs(ret'.err, ErrNotFound) /\ UNCHANGED <<db, pending>>
              ELSE /\ ret'.err = NoError
                   /\ Cardinality(LinksOf(id, sl)) = 1
                   /\ stopTags' = stopTags \ LinksOf(id, sl)
                   /\ UNCHANGED <<trips, stops, tags, nextID, pending>>
     /\ \A id \in TripIDs :
          (TripDelete(id, FALSE) /\ ~\E t \in trips : t.id = id)
            => ErrorsIs(ret'.err, ErrNotFound) /\ UNCHANGED <<db, pending>>]_vars

\* RemoveTagFromStop has returned NotFound for the slug of a stored tag that
\* the stop is not linked to, and the stop has its link to another tag.
C17_Witness ==
  /\ ret.op = "Stop.RemoveTagFromStop" /\ ErrorsIs(ret.err, ErrNotFound)
  /\ \E t \in tags : t.slug = ret.arg.slug
  /\ LinksOf(ret.arg.stopID, ret.arg.slug) = {}
  /\ \E l \in stopTags : l.stopID = ret.arg.stopID

\* Trip.Delete has returned NotFound for an identifier that no trip was
\* given, in a store that holds a trip.
C17_WitnessTripNeverCreated ==
  /\ ret.op = "Trip.Delete" /\ ErrorsIs(ret.err, ErrNotFound)
  /\ ret.arg.id > nextID.trip
  /\ trips # {}

\* C18: a tag row of one state is a tag row of the next, with the same
\* identifier, name and slug, whichever call takes the step.
C18_TagsNeverDeleted ==
  [][\A t \in tags : t \in tags']_vars

\* Every trip and with it every stop and link has been deleted, and the
\* tags, one of them stored under a name that was upserted again in another
\* spelling, are in the store.
C18_Witness ==
  /\ ret.op = "Trip.Delete" /\ ret.err = NoError
  /\ trips = {} /\ stops = {} /\ stopTags = {}
  /\ nextID.stop > 0
  /\ Cardinality(tags) = MaxTags
  /\ \E t \in tags : t.name = <<"A">> /\ t.slug = <<"a">>

\* C19: a Trip.Delete that succeeds removes the trip, its stops and the
\* links of these stops, and no other stop; in every state the trip of each
\* stop and the stop and the tag of each link are in the store.
C19_TripDeleteCascades ==
  /\ [][\A id \in TripIDs :
          (TripDelete(id, FALSE) /\ ret'.err = NoError)
            => /\ \A t \in trips' : t.id # id
               /\ \A s \in stops' : s.tripID # id
               /\ \A l \in stopTags' :
                    ~\E s \in stops : s.id = l.stopID /\ s.tripID = id
               /\ \A s \in stops : s.tripID # id => s \in stops']_vars
  /\ [](/\ \A s \in stops : \E t \in trips : t.id = s.tripID
        /\ \A l \in stopTags :
             /\ \E s \in stops : s.id = l.stopID
             /\ \E t \in tags : t.id = l.tagID)

\* Trip.Delete has succeeded; of the two stops that were created, the one
\* of the other trip is in the store with its link.
C19_Witness ==
  /\ ret.op = "Trip.Delete" /\ ret.err = NoError
  /\ nextID.stop = 2 /\ Cardinality(stops) = 1
  /\ \A s \in stops : s.tripID # ret.arg.id
  /\ \E l \in stopTags : \E s \in stops : s.id = l.stopID

\* ------------------------------------------------------------------------
\* ExportSpec: Export calls, each statement failing or not, on a store that
\* no one writes to.  The store is any of a family of stores that the
\* service calls build: up to MaxTrips trips, up to MaxStops stops spread
\* over them, MaxTags tags whose identifier order is not their slug order,
\* and any set of links.
\* ------------------------------------------------------------------------

\* The slug of the tag stored k-th: "a", then "1", "11", ...
SlugOfID(k) == IF k = 1 THEN <<"a">> ELSE [i \in 1..(k - 1) |-> "1"]

ExportTagRows ==
  {[id |-> k, name |-> IF k = 1 THEN <<"A">> ELSE SlugOfID(k), slug |-> SlugOfID(k)] :
     k \in TagIDs}

ExportTripRows(n) ==
  {{[id |-> i, name |-> IF i = 1 THEN <<"a">> ELSE <<"A", " ", "1">>,
     startDate |-> f[i],
     endDate |-> IF i = 1 THEN Null ELSE Some(f[i])] : i \in 1..n} :
     f \in [1..n -> Times]}

ExportStopRows(n, m) ==
  {{StopRow(j, [tripID |-> g[j].t, name |-> <<"a">>,
                location |-> IF j = 1 THEN <<>> ELSE <<"a">>,
                arrivedAt |-> g[j].a,
                departedAt |-> IF j = 1 THEN Null ELSE Some(g[j].a),
                notes |-> IF j = 1 THEN <<>> ELSE <<"1">>]) : j \in 1..m} :
     g \in [1..m -> [t : 1..n, a : Times]]}

ExportInit ==
  /\ \E n \in 0..MaxTrips, m \in 0..MaxStops :
       /\ trips \in ExportTripRows(n)
       /\ stops \in ExportStopRows(n, m)
       /\ stopTags \in SUBSET [stopID : 1..m, tagID : TagIDs]
       /\ nextID = [trip |-> n, stop |-> m, tag |-> MaxTags]
  /\ tags = ExportTagRows
  /\ pending = EmptyBag
  /\ exp = ExportIdle
  /\ ret = NoCall
  /\ slugTest = [name |-> <<>>, variant |-> <<>>, slug |-> Null,
                 variantSlug |-> Null, reslug |-> Null]

ExportNext ==
  \/ \E f \in BOOLEAN : ExportListTrips(f)
  \/ \E f \in BOOLEAN : ExportListStops(f)
  \/ \E f \in BOOLEAN : ExportListTags(f)

ExportSpec == ExportInit /\ [][ExportNext]_vars

\* An Export call has returned rows.
ExportReturned == ret.op = "Export" /\ ret.err = NoError

\* The stops of a trip in a store.
StopsOf(store, tripID) == {s \in store.stops : s.tripID = tripID}

\* The sum over the trips ts of max(number of stops of the trip, 1).
RECURSIVE RowCount(_, _)
RowCount(store, ts) ==
  IF ts = {} THEN 0
  ELSE LET t == CHOOSE x \in ts : TRUE
           n == Cardinality(StopsOf(store, t.id))
       IN (IF n > 1 THEN n ELSE 1) + RowCount(store, ts \ {t})

\* The row carries the fields of the trip.
RowOfTrip(row, t) ==
  /\ row.tripID = <<"uuid", t.id>>
  /\ row.tripName = t.name
  /\ row.tripStartDate = <<"2006-01-02", t.startDate>>
  /\ row.tripEndDate =
       (IF t.endDate = Null THEN <<>> ELSE <<"2006-01-02", t.endDate[1]>>)

\* The row carries the fields of the stop (a NULL text column as "").
RowOfStop(row, s) ==
  /\ row.stopName = s.name
  /\ row.stopLocation = (IF s.location = Null THEN <<>> ELSE s.location[1])
  /\ row.arrivedAt = <<s.arrivedAt>>
  /\ row.departedAt = s.departedAt
  /\ row.stopNotes = (IF s.notes = Null THEN <<>> ELSE s.notes[1])

\* The row has empty stop fields, no arrival, no departure and no tags.
StoplessRow(row) ==
  /\ row.stopName = <<>> /\ row.stopLocation = <<>> /\ row.stopNotes = <<>>
  /\ row.arrivedAt = Null /\ row.departedAt = Null
  /\ Len(row.tags.items) = 0

\* The rows are one row per stop of the store, plus one row per trip of the
\* store that has no stop.
OneRowPerStop(rows, store) ==
  LET stopIdx == {i \in 1..Len(rows) : rows[i].arrivedAt # Null}
  IN /\ Len(rows) = RowCount(store, store.trips)
     /\ \E h \in [stopIdx -> store.stops] :
          /\ \A i, j \in stopIdx : h[i] = h[j] => i = j
          /\ \A s \in store.stops : \E i \in stopIdx : h[i] = s
          /\ \A i \in stopIdx :
               /\ RowOfStop(rows[i], h[i])
               /\ \E t \in store.trips : t.id = h[i].tripID /\ RowOfTrip(rows[i], t)
     /\ \A t \in store.trips :
          StopsOf(store, t.id) = {} =>
            /\ Cardinality({i \in 1..Len(rows) : rows[i].tripID = <<"uuid", t.id>>}) = 1
            /\ \A i \in 1..Len(rows) :
                 rows[i].tripID = <<"uuid", t.id>> =>
                   RowOfTrip(rows[i], t) /\ StoplessRow(rows[i])
     /\ \A i \in 1..Len(rows) \ stopIdx :
          \E t \in store.trips :
            StopsOf(store, t.id) = {} /\ rows[i].tripID = <<"uuid", t.id>>

\* C5: the rows Export returns are exactly one row per stop plus exactly one
\* row per trip without stops, sum of max(si, 1) rows in all; the row of a
\* stopless trip has the trip fields, empty stop fields, no arrival, no
\* departure and an empty tag list.
C5_OneRowPerStopOrStoplessTrip ==
  ExportReturned => OneRowPerStop(ret.val.rows.items, Store)

\* Export has returned the rows of a store with a trip that has no stop and
\* a trip that has more than one.
C5_Witness ==
  /\ ExportReturned
  /\ \E t \in trips : StopsOf(Store, t.id) = {}
  /\ \E t \in trips : Cardinality(StopsOf(Store, t.id)) > 1
  /\ Len(ret.val.rows.items) = 3

\* The identifiers of the trips of the rows, each once, in order of first
\* appearance.
RECURSIVE TripOrder(_)
TripOrder(rows) ==
  IF rows = <<>> THEN <<>>
  ELSE LET rest == TripOrder(SubSeq(rows, 1, Len(rows) - 1))
           id == rows[Len(rows)].tripID
       IN IF \E i \in 1..Len(rest) : rest[i] = id THEN rest ELSE Append(rest, id)

\* The cells of a CSV field that joins its cells with "|".
RECURSIVE SplitBar(_)
SplitBar(cell) ==
  IF \A i \in 1..Len(cell) : cell[i] # "|"
    THEN <<cell>>
    ELSE LET k == CHOOSE i \in 1..Len(cell) :
                    cell[i] = "|" /\ \A j \in 1..(i - 1) : cell[j] # "|"
         IN <<SubSeq(cell, 1, k - 1)>> \o SplitBar(SubSeq(cell, k + 1, Len(cell)))

C7_FailsFast ==
  /\ exp.pc # "idle" => \A i \in 1..Len(exp.log) : exp.log[i].err = NoError
  /\ ret.op = "Export" =>
       LET log == ret.val.log
       IN /\ \A i \in 1..(Len(log) - 1) : log[i].err = NoError
          /\ log[Len(log)].err # NoError =>
               /\ ret.err # NoError
               /\ SubSeq(ret.err, 2, Len(ret.err)) = log[Len(log)].err
               /\ ret.val.rows.items = <<>>
          /\ ret.err # NoError => log[Len(log)].err # NoError

\* Export has returned the error of a tag listing that failed after the rows
\* of an earlier stop had been built.
C7_Witness ==
  /\ ret.op = "Export" /\ ErrorsIs(ret.err, ErrStore)
  /\ ret.val.log[Len(ret.val.log)].call = "tags.ListByStop"
  /\ \E i \in 1..(Len(ret.val.log) - 1) : ret.val.log[i].call = "tags.ListByStop"
  /\ ret.val.rows.items = <<>>

\* ------------------------------------------------------------------------
\* ListSpec: every listing of the three services, the store failing or not,
\* on the stores of ExportSpec (the empty store among them).
\* ------------------------------------------------------------------------

PageInputs == [page : 1..2, limit : 1..2]
PrefixInputs == {<<>>, <<"A">>, <<" ", "1">>, <<"!">>}

ListNext ==
  /\ \/ \E f \in BOOLEAN : TripList(f)
     \/ \E p \in PageInputs, f \in BOOLEAN : TripListPaged(p, f)
     \/ \E t \in TripIDs, f \in BOOLEAN : StopListByTripID(t, f)
     \/ \E t \in TripIDs, p \in PageInputs, f \in BOOLEAN :
          StopListByTripIDPaged(t, p, f)
     \/ \E id \in StopIDs, f \in BOOLEAN : ListTagsByStop(id, f)
     \/ \E x \in PrefixInputs, f \in BOOLEAN : TagList(x, f)
     \/ \E x \in PrefixInputs, p \in PageInputs, f \in BOOLEAN :
          TagListPaged(x, p, f)
  /\ UNCHANGED exp

ListSpec == ExportInit /\ [][ListNext]_vars

ListOps ==
  {"TripService.List", "TripService.ListPaged", "StopService.ListByTripID",
   "StopService.ListByTripIDPaged", "StopService.ListTagsByStop",
   "TagService.List", "TagService.ListPaged"}

\* C20: a listing of a service that returns no error returns a slice that
\* is not nil, with or without rows, also when the store gave nil.
C20_ListingsNeverNil ==
  (ret.op \in ListOps /\ ret.err = NoError) => ~ret.val.list.null

\* TripService.List has succeeded on a store without trips, where
\* pgTripRepo.List gives nil, and returned an empty slice.
C20_Witness ==
  /\ ret.op = "TripService.List" /\ ret.err = NoError
  /\ trips = {}
  /\ \A r \in TripRepoList(FALSE) : r.val.null
  /\ ret.val.list = Slice(<<>>)

\* StopService.ListByTripIDPaged has succeeded for a trip with stops and
\* returned an empty slice.
C20_WitnessPagedStub ==
  /\ ret.op = "StopService.ListByTripIDPaged" /\ ret.err = NoError
  /\ \E st \in stops : st.tripID = ret.arg.tripID
  /\ ret.val.list = Slice(<<>>)

\* The records a paged listing matches: all trips, the stops of the trip, the
\* tags whose slug starts with the trimmed, lowercased prefix.
Matching ==
  CASE ret.op = "TripService.ListPaged" -> trips
    [] ret.op = "StopService.ListByTripIDPaged" ->
         {st \in stops : st.tripID = ret.arg.tripID}
    [] ret.op = "TagService.ListPaged" ->
         {t \in tags : HasPrefix(t.slug, ToLower(TrimSpace(ret.arg.prefix)))}
    [] OTHER -> {}

PagedOps ==
  {"TripService.ListPaged", "StopService.ListByTripIDPaged", "TagService.ListPaged"}

\* C22 (the claim as stated): a paged listing of trips, of the stops of a
\* trip or of the tags of a prefix, asked for a page beyond the data, returns
\* an empty page and, as total, the number of all matching records.
C22_PageBeyondDataHasTotal ==
  (/\ ret.op \in PagedOps /\ ret.err = NoError
   /\ Offset(ret.arg.p) >= Cardinality(Matching)) =>
    /\ ret.val.list = Slice(<<>>)
    /\ ret.val.total = Cardinality(Matching)

\* A paged listing of stops or tags, asked for a page beyond the data, has
\* returned total 0 while records match.
C22_StubTotalZero ==
  /\ ret.op \in {"StopService.ListByTripIDPaged", "TagService.ListPaged"}
  /\ ret.err = NoError
  /\ Offset(ret.arg.p) >= Cardinality(Matching)
  /\ Matching # {}
  /\ ret.val.total = 0

\* ------------------------------------------------------------------------
\* ErrSpec: the calls of the trip service and of the stop service that reach
\* the store, the store failing or not, on present and absent rows and on
\* valid and invalid input.
\* ------------------------------------------------------------------------

ErrTrips ==
  {[name |-> <<"a">>, startDate |-> 1, endDate |-> Null],
   [name |-> <<" ">>, startDate |-> 1, endDate |-> Null]}
ErrStops ==
  {[tripID |-> t, name |-> n, location |-> <<>>, arrivedAt |-> 1,
    departedAt |-> Null, notes |-> <<>>] : t \in TripIDs, n \in {<<>>, <<"a">>}}

ErrNext ==
  /\ \/ \E t \in ErrTrips, f \in BOOLEAN : TripCreate(t, f)
     \/ \E id \in TripIDs, f \in BOOLEAN : TripGetByID(id, f)
     \/ \E id \in TripIDs, t \in ErrTrips, f \in BOOLEAN : TripUpdate(id, t, f)
     \/ \E id \in TripIDs, f \in BOOLEAN : TripDelete(id, f)
     \/ \E s \in ErrStops, f \in BOOLEAN : StopCreateCheck(s, f)
     \/ \E c \in BagToSet(pending), f \in BOOLEAN : StopCreateInsert(c, f)
     \/ \E t \in TripIDs, id \in StopIDs, f \in BOOLEAN : StopGetByID(t, id, f)
     \/ \E t \in TripIDs, id \in StopIDs, f \in BOOLEAN : StopDelete(t, id, f)
  /\ UNCHANGED exp

ErrSpec == Init /\ [][ErrNext]_vars

\* The error a service returns for the error inner of the store keeps its
\* kind: it is inner or wraps it, is NotFound when inner is, Validation when
\* inner is, and neither of them when inner is neither.
KindPreserved(inner, outer) ==
  /\ (inner = NoError) = (outer = NoError)
  /\ UnwrapsTo(outer, inner)
  /\ ErrorsIs(outer, ErrNotFound) = ErrorsIs(inner, ErrNotFound)
  /\ ErrorsIs(outer, ErrValidation) = ErrorsIs(inner, ErrValidation)

\* C24: the error a service returns has the kind of its cause: NotFound of
\* the store stays NotFound, a validation failure is Validation, and any
\* other error of the store is returned recognizable as that same error and
\* as neither NotFound nor Validation.
C24_WrappingPreservesKind ==
  [][/\ \A id \in TripIDs, f \in BOOLEAN :
          TripGetByID(id, f) => KindPreserved(TripRepoGetByID(id, f).err, ret'.err)
     /\ \A id \in TripIDs, f \in BOOLEAN :
          TripDelete(id, f) => KindPreserved(TripRepoDelete(id, f).err, ret'.err)
     /\ \A t \in ErrTrips, f \in BOOLEAN :
          TripCreate(t, f) =>
            IF validateTrip(t) # NoError
              THEN ErrorsIs(ret'.err, ErrValidation) /\ ~ErrorsIs(ret'.err, ErrNotFound)
              ELSE KindPreserved(TripRepoCreate(t, f).err, ret'.err)
     /\ \A id \in TripIDs, t \in ErrTrips, f \in BOOLEAN :
          TripUpdate(id, t, f) =>
            IF validateTrip(t) # NoError
              THEN ErrorsIs(ret'.err, ErrValidation) /\ ~ErrorsIs(ret'.err, ErrNotFound)
              ELSE KindPreserved(TripRepoUpdate(id, t, f).err, ret'.err)
     /\ \A s \in ErrStops, f \in BOOLEAN :
          (StopCreateCheck(s, f) /\ ret' # ret) =>
            IF TripRepoGetByID(s.tripID, f).err # NoError
              THEN KindPreserved(TripRepoGetByID(s.tripID, f).err, ret'.err)
              ELSE ErrorsIs(ret'.err, ErrValidation) /\ ~ErrorsIs(ret'.err, ErrNotFound)
     /\ \A c \in BagToSet(pending), f \in BOOLEAN :
          StopCreateInsert(c, f) => KindPreserved(StopRepoCreate(c.stop, f).err, ret'.err)
     /\ \A t \in TripIDs, id \in StopIDs, f \in BOOLEAN :
          StopGetByID(t, id, f) => KindPreserved(StopRepoGetByID(t, id, f).err, ret'.err)
     /\ \A t \in TripIDs, id \in StopIDs, f \in BOOLEAN :
          StopDelete(t, id, f) => KindPreserved(StopRepoDelete(t, id, f).err, ret'.err)
    ]_vars

\* TripService.GetByID has returned, for an id without a row, the NotFound of
\* the store under the prefix of the service.
C24_Witness ==
  /\ ret.op = "Trip.GetByID"
  /\ ~\E t \in trips : t.id = ret.arg.id
  /\ ret.err = Wrap("service.TripService.GetByID", TripRepoGetByID(ret.arg.id, FALSE).err)
  /\ ErrorsIs(ret.err, ErrNotFound) /\ ret.err # ErrNotFound

\* A service has returned a failure of the store that is neither NotFound
\* nor Validation, under its own prefix.
C24_WitnessStoreError ==
  /\ ret.op \in {"Trip.Create", "Stop.Create"}
  /\ ErrorsIs(ret.err, ErrStore) /\ Len(ret.err) >= 3
  /\ ~ErrorsIs(ret.err, ErrNotFound) /\ ~ErrorsIs(ret.err, ErrValidation)

\* ------------------------------------------------------------------------
\* PrefixSpec: TagService.List, the store failing or not, on the stores of
\* ExportSpec, for prefixes with and without the characters % and _.
\* ------------------------------------------------------------------------

LikePrefixes ==
  {<<>>, <<"a">>, <<" ", "A">>, <<"1">>, <<"1", "1">>, <<"!">>,
   <<"%">>, <<"_">>, <<"%", "1">>, <<"a", "_">>}

PrefixNext ==
  /\ \E x \in LikePrefixes, f \in BOOLEAN : TagList(x, f)
  /\ UNCHANGED exp

PrefixSpec == ExportInit /\ [][PrefixNext]_vars

\* C27 (the claim as stated): TagService.List(prefix) returns exactly the
\* tags whose slug starts with the trimmed, lowercased prefix, in ascending
\* order of the slug, for every prefix, those with % or _ included; the empty
\* prefix gives all tags.
C27_ListIsStartsWith ==
  (ret.op = "TagService.List" /\ ret.err = NoError) =>
    LET prefix == ToLower(TrimSpace(ret.arg.prefix))
        items == ret.val.list.items
        expected == {t \in tags : HasPrefix(t.slug, prefix)}
    IN /\ {items[i] : i \in 1..Len(items)} = expected
       /\ Len(items) = Cardinality(expected)
       /\ \A i, j \in 1..Len(items) : i < j => StrLess(items[i].slug, items[j].slug)
       /\ prefix = <<>> => expected = tags

\* List has returned, for a prefix with % or _, a tag whose slug does not
\* start with the prefix.
C27_WildcardMatch ==
  /\ ret.op = "TagService.List" /\ ret.err = NoError
  /\ \E i \in 1..Len(ret.arg.prefix) : ret.arg.prefix[i] \in {"%", "_"}
  /\ \E i \in 1..Len(ret.val.list.items) :
       ~HasPrefix(ret.val.list.items[i].slug, ToLower(TrimSpace(ret.arg.prefix)))

\* List has returned, for a prefix without % and _, the tags whose slug
\* starts with it, and not all tags.
C27_PlainPrefix ==
  /\ ret.op = "TagService.List" /\ ret.err = NoError
  /\ ret.arg.prefix = <<" ", "A">>
  /\ Len(ret.val.list.items) = 1 /\ ret.val.list.items[1].slug = <<"a">>
  /\ Cardinality(tags) > 1

\* ------------------------------------------------------------------------
\* RouteSpec: requests on the tag routes of a stop under every trip
\* identifier, the store failing or not, on a store with one trip, its stop
\* and a tag linked to it; a second trip, which owns no stop, may be created.
\* ------------------------------------------------------------------------

RouteNext ==
  /\ \/ \E tr \in StopSpecTrips : TripCreate(tr, FALSE)
     \/ \E t \in TripIDs, id \in StopIDs, f \in BOOLEAN : ServerListTagsByStop(t, id, f)
     \/ \E t \in TripIDs, id \in StopIDs, n \in LifeAddTagNames, f \in BOOLEAN :
          ServerAddTagToStop(t, id, n, f)
     \/ \E c \in BagToSet(pending), f \in BOOLEAN : AddTagLink(c, f)
     \/ \E t \in TripIDs, id \in StopIDs, sl \in LifeSlugs, f \in BOOLEAN :
          ServerRemoveTagFromStop(t, id, sl, f)
  /\ UNCHANGED exp

RouteSpec == LinkInit /\ [][RouteNext]_vars

\* C30: a request on a tag route of a stop (add, remove, list) has the same
\* result and makes the same change of the store under every trip identifier
\* of the path, that of a trip that does not own the stop or does not exist
\* included: every step of a request under one trip identifier is a step of
\* the request under any other.
C30_TagRoutesIgnoreTripID ==
  [][\A t1, t2 \in TripIDs, id \in StopIDs, f \in BOOLEAN :
       /\ ServerListTagsByStop(t1, id, f) => ServerListTagsByStop(t2, id, f)
       /\ \A n \in LifeAddTagNames :
            ServerAddTagToStop(t1, id, n, f) => ServerAddTagToStop(t2, id, n, f)
       /\ \A sl \in LifeSlugs :
            ServerRemoveTagFromStop(t1, id, sl, f) =>
              ServerRemoveTagFromStop(t2, id, sl, f)]_vars

\* The tags of a stop have been listed with status 200 while a second trip,
\* which does not own the stop, is in the store: the step is that of the
\* request under either trip identifier.
C30_Witness ==
  /\ ret.op = "StopService.ListTagsByStop" /\ TagRouteResponse(ret).status = 200
  /\ ret.val.list.items # <<>>
  /\ \E s \in stops :
       /\ s.id = ret.arg.stopID
       /\ \E t \in trips : t.id # s.tripID

\* ------------------------------------------------------------------------
\* PaginationSpec: pagination parameters are built from every page of the
\* machine integers, absent or given, and from limits on both sides of the
\* defaults and of the cap.
\* ------------------------------------------------------------------------

PageValues == MinInt..MaxInt
LimitValues == {-1, 0, 1, DefaultLimit, LimitCap, LimitCap + 1, MaxInt}

PaginationNext ==
  /\ \E page \in Opt(PageValues), limit \in Opt(LimitValues) :
       BuildPagination(page, limit)
  /\ UNCHANGED exp

PaginationSpec == Init /\ [][PaginationNext]_vars

\* C21: NewPaginationParams gives a page of at least 1 and a limit from 1 to
\* 100: page 1 for an absent page and for a page below 1, else the page;
\* limit 20 for an absent limit (and for a limit below 1), 100 for a limit
\* above 100, else the limit.
C21_PaginationParamsClamped ==
  ret.op = "NewPaginationParams" =>
    LET page == ret.arg.page
        limit == ret.arg.limit
        p == ret.val.p
    IN /\ p.page >= 1 /\ p.limit >= 1 /\ p.limit <= 100
       /\ page = Null => p.page = 1
       /\ limit = Null => p.limit = 20
       /\ (page # Null /\ page[1] < 1) => p.page = 1
       /\ (page # Null /\ page[1] >= 1) => p.page = page[1]
       /\ (limit # Null /\ limit[1] > 100) => p.limit = 100
       /\ (limit # Null /\ limit[1] < 1) => p.limit = 20
       /\ (limit # Null /\ limit[1] >= 1 /\ limit[1] <= 100) => p.limit = limit[1]

\* Parameters have been built from a page below 1 and a limit above 100.
C21_Witness ==
  /\ ret.op = "NewPaginationParams"
  /\ ret.arg.page # Null /\ ret.arg.page[1] < 1
  /\ ret.arg.limit # Null /\ ret.arg.limit[1] > 100
  /\ ret.val.p = [page |-> 1, limit |-> 100]

\* C23 (the claim as stated): for every parameters NewPaginationParams
\* builds, Offset() is (page - 1) * limit, is not negative and is a multiple
\* of the limit.
C23_OffsetNonNegativeMultiple ==
  ret.op = "NewPaginationParams" =>
    /\ ret.val.offset = (ret.val.p.page - 1) * ret.val.p.limit
    /\ ret.val.offset >= 0
    /\ ret.val.offset % ret.val.p.limit = 0

\* Offset() of parameters built by NewPaginationParams is negative.
C23_NegativeOffset ==
  /\ ret.op = "NewPaginationParams"
  /\ ret.val.p.page >= 1 /\ ret.val.p.limit >= 1 /\ ret.val.p.limit <= 100
  /\ ret.val.offset < 0

\* ------------------------------------------------------------------------
\* SkewSpec: Export calls on a store that trip and stop writers change
\* between the statements of the call.  The store starts empty; up to
\* MaxSkewWrites writes commit while one Export call is in progress, and
\* exp.seen collects every store that exists during the call.
\* ------------------------------------------------------------------------

SkewTrip == [name |-> <<"a">>, startDate |-> 1, endDate |-> Null]
SkewStops ==
  {[tripID |-> t, name |-> <<"a">>, location |-> <<>>, arrivedAt |-> 1,
    departedAt |-> Null, notes |-> <<>>] : t \in TripIDs}

SkewWrite ==
  \/ TripCreate(SkewTrip, FALSE)
  \/ \E id \in TripIDs : TripDelete(id, FALSE)
  \/ \E s \in SkewStops : StopCreateCheck(s, FALSE)
  \/ \E c \in BagToSet(pending) : StopCreateInsert(c, FALSE)
  \/ \E t \in TripIDs, id \in StopIDs : StopDelete(t, id, FALSE)

SkewNext ==
  \/ /\ SkewWrite
     /\ exp' = IF exp.pc = "idle" \/ Store' = Store
                 THEN exp
                 ELSE [exp EXCEPT !.seen = @ \cup {Store'}]
     /\ exp.pc # "idle" => Cardinality(exp'.seen) <= MaxSkewWrites + 1
  \/ ExportListTrips(FALSE)
  \/ ExportListStops(FALSE)
  \/ ExportListTags(FALSE)

SkewSpec == Init /\ [][SkewNext]_vars

\* The rows Export returned are the rows of none of the stores that existed
\* during the call.
ReadSkew ==
  /\ ExportReturned
  /\ \A d \in ret.val.seen : ~OneRowPerStop(ret.val.rows.items, d)

\* C8: Export reads its listings one statement at a time, so its rows are
\* the rows of one store of the call only as long as no write commits
\* between its statements: rows that are the rows of no store of the call
\* are returned only by a call that a write ran into.
C8_SkewOnlyUnderWriters ==
  ReadSkew => Cardinality(ret.val.seen) > 1

\* Export listed a trip and its stops, a writer then deleted the trip, and
\* Export returned rows that are the rows of neither the store before the
\* delete nor the store after it.
C8_Witness ==
  /\ ReadSkew
  /\ Cardinality(ret.val.seen) = 2
  /\ Len(ret.val.rows.items) >= 1
  /\ \E d \in ret.val.seen : d.trips = {}

\* ------------------------------------------------------------------------
\* ScenarioSpec: from the empty store and with a store that does not fail,
\* trips and stops are created, stops are tagged "Rocky Mountains" (or a
\* variant of that name) and Export calls run, in any order and interleaving.
\* ------------------------------------------------------------------------

RockyMountains ==
  <<"R", "o", "c", "k", "y", " ", "M", "o", "u", "n", "t", "a", "i", "n", "s">>
RockySlug ==
  <<"r", "o", "c", "k", "y", "-", "m", "o", "u", "n", "t", "a", "i", "n", "s">>
ScenarioNames == {RockyMountains, <<" ">> \o RockySlug \o <<"!">>}

ScenarioStops ==
  {[tripID |-> 1, name |-> <<"a">>, location |-> <<>>, arrivedAt |-> 1,
    departedAt |-> Null, notes |-> <<>>]}

ScenarioWrite ==
  \/ TripCreate(SkewTrip, FALSE)
  \/ \E s \in ScenarioStops : StopCreateCheck(s, FALSE)
  \/ \E c \in BagToSet(pending) : StopCreateInsert(c, FALSE)
  \/ \E id \in StopIDs, n \in ScenarioNames : AddTagUpsert(id, n, FALSE)
  \/ \E c \in BagToSet(pending) : AddTagLink(c, FALSE)

ScenarioNext ==
  \/ /\ ScenarioWrite
     /\ exp' = IF exp.pc = "idle" \/ Store' = Store
                 THEN exp
                 ELSE [exp EXCEPT !.seen = @ \cup {Store'}]
     /\ exp.pc # "idle" => Cardinality(exp'.seen) <= MaxSkewWrites + 1
  \/ ExportListTrips(FALSE)
  \/ ExportListStops(FALSE)
  \/ ExportListTags(FALSE)

ScenarioSpec == Init /\ [][ScenarioNext]_vars

\* The store after the scenario: one trip, one stop of it, the one tag and
\* its link to the stop.
ScenarioStore(d) ==
  /\ Cardinality(d.trips) = 1 /\ Cardinality(d.stops) = 1
  /\ \A st \in d.stops : \E t \in d.trips : st.tripID = t.id
  /\ Cardinality(d.tags) = 1 /\ Cardinality(d.stopTags) = 1

\* C25: from the empty store, creating a trip, creating a stop of it, adding
\* the tag "Rocky Mountains" to the stop and exporting all succeed; AddTag
\* returns a tag with the slug "rocky-mountains", and Export returns exactly
\* one row, whose tags are ["rocky-mountains"].
C25_AcceptanceScenario ==
  /\ [][/\ (TripCreate(SkewTrip, FALSE) /\ trips = {}) =>
             (ret'.err = NoError /\ Cardinality(trips') = 1)
        /\ \A c \in BagToSet(pending) :
             (StopCreateInsert(c, FALSE) /\ c.op = "Stop.Create") =>
               (ret'.err = NoError /\ ret'.val.stop \in stops')
        /\ \A s \in ScenarioStops :
             (StopCreateCheck(s, FALSE) /\ \E t \in trips : t.id = s.tripID) =>
               [op |-> "Stop.Create", stop |-> s] \in BagToSet(pending')
        /\ \A c \in BagToSet(pending) :
             (/\ AddTagLink(c, FALSE) /\ c.op = "Stop.AddTag"
              /\ c.name = RockyMountains
              /\ \E st \in stops : st.id = c.stopID) =>
               /\ ret'.err = NoError
               /\ ret'.val.tag.slug = RockySlug
               /\ [stopID |-> c.stopID, tagID |-> ret'.val.tag.id] \in stopTags'
        /\ \A id \in StopIDs :
             AddTagUpsert(id, RockyMountains, FALSE) =>
               \E c \in BagToSet(pending') :
                 c.op = "Stop.AddTag" /\ c.stopID = id /\ c.tag.slug = RockySlug
       ]_vars
  /\ [](ret.op = "Export" => ret.err = NoError)
  /\ []((/\ ExportReturned
         /\ \E d \in ret.val.seen : ret.val.seen = {d} /\ ScenarioStore(d)) =>
          /\ Len(ret.val.rows.items) = 1
          /\ ret.val.rows.items[1].tags = Slice(<<RockySlug>>))

\* Export has returned one row with the tags ["rocky-mountains"] from a
\* store that holds the one trip, the one stop and the tag named
\* "Rocky Mountains" linked to it, and that no one wrote to during the call.
C25_Witness ==
  /\ ExportReturned
  /\ ret.val.seen = {Store} /\ ScenarioStore(Store)
  /\ \E t \in tags : t.name = RockyMountains /\ t.slug = RockySlug
  /\ Len(ret.val.rows.items) = 1
  /\ ret.val.rows.items[1].tags = Slice(<<RockySlug>>)

\* ------------------------------------------------------------------------
\* SlugSpec: toSlug applied to every name of bounded length, to every case
\* variant of the name, and to its own result.
\* ------------------------------------------------------------------------

Names == StringsUpTo(Alphabet, MaxNameLen)

\* The uppercase / lowercase pairs of the alphabet.
CasePairs == {<<"A", "a">>, <<"E'", "e'">>}
IsLetter(c) == \E p \in CasePairs : c \in {p[1], p[2]}
SwapCase(c) ==
  IF \E p \in CasePairs : p[1] = c THEN (CHOOSE p \in CasePairs : p[1] = c)[2]
  ELSE IF \E p \in CasePairs : p[2] = c THEN (CHOOSE p \in CasePairs : p[2] = c)[1]
  ELSE c

SlugTestOf(name) ==
  [name |-> name, variant |-> name, slug |-> Null, variantSlug |-> Null,
   reslug |-> Null]

SlugInit ==
  /\ slugTest \in {SlugTestOf(n) : n \in Names}
  /\ trips = {} /\ stops = {} /\ tags = {} /\ stopTags = {}
  /\ nextID = [trip |-> 0, stop |-> 0, tag |-> 0]
  /\ pending = EmptyBag
  /\ exp = ExportIdle
  /\ ret = NoCall

\* Change the case of one letter of the variant.
SlugChangeCase(i) ==
  /\ slugTest.slug = Null
  /\ i \in 1..Len(slugTest.variant)
  /\ IsLetter(slugTest.variant[i])
  /\ slugTest' = [slugTest EXCEPT !.variant[i] = SwapCase(@)]
  /\ UNCHANGED <<db, pending, exp, ret>>

\* toSlug(name) and toSlug(variant).
SlugNormalize ==
  /\ slugTest.slug = Null
  /\ slugTest' = [slugTest EXCEPT !.slug = Some(toSlug(slugTest.name)),
                                  !.variantSlug = Some(toSlug(slugTest.variant))]
  /\ UNCHANGED <<db, pending, exp, ret>>

\* toSlug(toSlug(name)).
SlugRenormalize ==
  /\ slugTest.slug # Null
  /\ slugTest.reslug = Null
  /\ slugTest' = [slugTest EXCEPT !.reslug = Some(toSlug(slugTest.slug[1]))]
  /\ UNCHANGED <<db, pending, exp, ret>>

SlugNext ==
  \/ \E i \in 1..MaxNameLen : SlugChangeCase(i)
  \/ SlugNormalize
  \/ SlugRenormalize

SlugSpec == SlugInit /\ [][SlugNext]_vars

\* The reference normalization, stated on positions: after lowercasing, every
\* accepted character is kept, and of every run of other characters that has
\* an accepted character before it and after it, the first character is kept
\* as a hyphen; nothing else is kept.
AcceptedChars == {"a", "1"}
RefLower(c) == IF \E p \in CasePairs : p[1] = c THEN SwapCase(c) ELSE c
RefKept(s) ==
  {i \in 1..Len(s) :
     \/ RefLower(s[i]) \in AcceptedChars
     \/ /\ i > 1
        /\ RefLower(s[i - 1]) \in AcceptedChars
        /\ \E j \in (i + 1)..Len(s) : RefLower(s[j]) \in AcceptedChars}
RefSlug(s) ==
  LET kept == RefKept(s)
      nth(k) == CHOOSE i \in kept : Cardinality({j \in kept : j <= i}) = k
  IN [k \in 1..Cardinality(kept) |->
        IF RefLower(s[nth(k)]) \in AcceptedChars THEN RefLower(s[nth(k)]) ELSE "-"]

\* Only a-z, 0-9 and single interior hyphens.
WellFormedSlug(s) ==
  /\ \A i \in 1..Len(s) : s[i] \in AcceptedChars \cup {"-"}
  /\ s # <<>> => s[1] # "-" /\ s[Len(s)] # "-"
  /\ \A i \in 1..(Len(s) - 1) : ~(s[i] = "-" /\ s[i + 1] = "-")

\* C3: toSlug(name) is the reference normalization of name (lowercase, each
\* maximal run of characters outside a-z0-9 becomes one hyphen, leading and
\* trailing hyphens stripped), and is made of a-z, 0-9 and single interior
\* hyphens only; for every name and every case variant of it.
C3_ToSlugIsReference ==
  slugTest.slug # Null =>
    /\ slugTest.slug[1] = RefSlug(slugTest.name)
    /\ slugTest.variantSlug[1] = RefSlug(slugTest.variant)
    /\ WellFormedSlug(slugTest.slug[1])
    /\ WellFormedSlug(slugTest.variantSlug[1])

\* A name with an uppercase letter and an interior run of two rejected
\* characters has been normalized to a slug with one interior hyphen.
C3_Witness ==
  /\ slugTest.slug # Null
  /\ \E i \in 1..Len(slugTest.name) : slugTest.name[i] \in UpperLetters
  /\ \E i \in 2..(Len(slugTest.name) - 2) :
       /\ IsNonAlphanumeric(ToLowerRune(slugTest.name[i]))
       /\ IsNonAlphanumeric(ToLowerRune(slugTest.name[i + 1]))
  /\ \E i \in 1..Len(slugTest.slug[1]) : slugTest.slug[1][i] = "-"

C4_WitnessPunctuation ==
  /\ slugTest.slug # Null
  /\ slugTest.name # <<>>
  /\ \A i \in 1..Len(slugTest.name) : slugTest.name[i] \in Punctuation

====
